---- MODULE Spec2Model ----
(***************************************************************************)
(* Keyset (cursor) pagination of the notes service: the page-token codec   *)
(* of internal/utils and Database.ListNotes of internal/database.          *)
(*                                                                         *)
(* A Go string is a sequence of bytes, so every string of the program is   *)
(* a tuple of byte values 0..255 here ("key" is <<107, 101, 121>>); the    *)
(* empty string is <<>>.                                                   *)
(***************************************************************************)
EXTENDS Integers, Sequences, FiniteSets, TLC

VARIABLES
    notes,      \* the rows of table notes
    actors,     \* the rows of table actors, by id
    filter,     \* the ListNotesFilter of the pagination run, page token included
    resp,       \* what the last ListNotes call returned
    seen,       \* the ids of the notes the run has returned so far, in order
    calls,      \* the number of ListNotes calls of the run
    pc,         \* where the caller stands
    cursor,     \* codec: the NotesPagination handed to EncodePaginationToken
    token,      \* codec: the token handed to DecodePaginationToken
    decoded,    \* codec: what DecodePaginationToken returned
    req,        \* server: the pb.ListNotesRequest the handler was given
    normalized, \* what NormalizeSort returned, <<>> before it is called
    tags,       \* the rows of table note_tags: pairs <<note_id, tag>>
    attachments, \* the rows of table attachments
    mu,         \* Database.Mu: the caller that holds it for writing (0: none) and the callers that hold it for reading
    procs,      \* the Database calls under way, by caller
    stable,     \* the ids of the notes no writer touched since the run began
    now         \* the clock of the database, in transactions begun

others == <<req, normalized, tags, attachments, mu, procs, stable, now>>

vars == <<notes, actors, filter, resp, seen, calls, pc, cursor, token, decoded, others>>

\* no handler request, no Database call under way, the child tables empty
RestIdle ==
    /\ req = <<>>
    /\ normalized = <<>>
    /\ tags = {}
    /\ attachments = {}
    /\ mu = [writer |-> 0, readers |-> {}]
    /\ procs = <<>>
    /\ stable = {}
    /\ now = 0

(***************************************************************************)
(* String literals of the source                                           *)
(***************************************************************************)
S_key == <<107, 101, 121>>
S_key_type == <<107, 101, 121, 95, 116, 121, 112, 101>>
S_id == <<105, 100>>
S_sort_by == <<115, 111, 114, 116, 95, 98, 121>>
S_direction == <<100, 105, 114, 101, 99, 116, 105, 111, 110>>
S_updated_at == <<117, 112, 100, 97, 116, 101, 100, 95, 97, 116>>
S_created_at == <<99, 114, 101, 97, 116, 101, 100, 95, 97, 116>>
S_title == <<116, 105, 116, 108, 101>>
S_is_pinned == <<105, 115, 95, 112, 105, 110, 110, 101, 100>>
S_time == <<116, 105, 109, 101>>
S_string == <<115, 116, 114, 105, 110, 103>>
S_bool == <<98, 111, 111, 108>>
S_true == <<116, 114, 117, 101>>
S_false == <<102, 97, 108, 115, 101>>
S_DESC == <<68, 69, 83, 67>>
S_ASC == <<65, 83, 67>>

\* strings.ToLower on ASCII letters (other bytes are left as they are)
ToLower(s) == [i \in 1..Len(s) |-> IF s[i] >= 65 /\ s[i] <= 90 THEN s[i] + 32 ELSE s[i]]

(***************************************************************************)
(* UTF-8: the length of the well-formed rune that starts at s[i], or 0     *)
(* when the bytes there are not well-formed UTF-8 (utf8.DecodeRune then    *)
(* yields RuneError with width 1).                                         *)
(***************************************************************************)
IsCont(s, i) == i <= Len(s) /\ s[i] >= 128 /\ s[i] <= 191

RuneLen(s, i) ==
    LET b == s[i] IN
    IF b < 128 THEN 1
    ELSE IF b >= 194 /\ b <= 223 THEN (IF IsCont(s, i + 1) THEN 2 ELSE 0)
    ELSE IF b >= 224 /\ b <= 239 THEN
        (IF /\ IsCont(s, i + 1) /\ IsCont(s, i + 2)
            /\ (b = 224 => s[i + 1] >= 160)
            /\ (b = 237 => s[i + 1] <= 159)
         THEN 3 ELSE 0)
    ELSE IF b >= 240 /\ b <= 244 THEN
        (IF /\ IsCont(s, i + 1) /\ IsCont(s, i + 2) /\ IsCont(s, i + 3)
            /\ (b = 240 => s[i + 1] >= 144)
            /\ (b = 244 => s[i + 1] <= 143)
         THEN 4 ELSE 0)
    ELSE 0

RECURSIVE ValidFrom(_, _)
ValidFrom(s, i) ==
    IF i > Len(s) THEN TRUE
    ELSE LET n == RuneLen(s, i) IN n > 0 /\ ValidFrom(s, i + n)

\* utf8.ValidString
ValidUTF8(s) == ValidFrom(s, 1)

\* U+FFFD, the replacement rune, as UTF-8
RuneErrorBytes == <<239, 191, 189>>

HexDigit(n) == IF n < 10 THEN 48 + n ELSE 87 + n

(***************************************************************************)
(* encoding/json, writing side.  json.Marshal writes a string between      *)
(* quotes, escapes the quote and the backslash, writes control bytes and   *)
(* the HTML bytes < > & as a backslash-u escape, writes U+2028 and U+2029  *)
(* as backslash-u escapes, and coerces the string to valid UTF-8: every    *)
(* byte that is not part of a well-formed rune is written as the escape    *)
(* of U+FFFD.                                                              *)
(***************************************************************************)
EscByte(b) ==
    IF b = 34 \/ b = 92 THEN <<92, b>>
    ELSE IF b = 8 THEN <<92, 98>>
    ELSE IF b = 12 THEN <<92, 102>>
    ELSE IF b = 10 THEN <<92, 110>>
    ELSE IF b = 13 THEN <<92, 114>>
    ELSE IF b = 9 THEN <<92, 116>>
    ELSE IF b < 32 \/ b \in {60, 62, 38}
         THEN <<92, 117, 48, 48, HexDigit(b \div 16), HexDigit(b % 16)>>
    ELSE <<b>>

RECURSIVE EncStr(_, _)
EncStr(s, i) ==
    IF i > Len(s) THEN <<>>
    ELSE LET b == s[i]
             n == RuneLen(s, i)
         IN IF b < 128 THEN EscByte(b) \o EncStr(s, i + 1)
            ELSE IF n = 0 THEN <<92, 117, 102, 102, 102, 100>> \o EncStr(s, i + 1)
            ELSE IF n = 3 /\ b = 226 /\ s[i + 1] = 128 /\ s[i + 2] \in {168, 169}
                 THEN <<92, 117, 50, 48, 50, IF s[i + 2] = 168 THEN 56 ELSE 57>>
                      \o EncStr(s, i + 3)
            ELSE SubSeq(s, i, i + n - 1) \o EncStr(s, i + n)

\* a writer that copies the bytes between the quotes without escaping
MarshalStringRaw(s) == <<34>> \o s \o <<34>>

MarshalString(s) == <<34>> \o EncStr(s, 1) \o <<34>>

\* one member of the object: "name":"value"
MarshalField(name, val) == <<34>> \o name \o <<34, 58>> \o MarshalString(val)

\* json.Marshal of a NotesPagination: the five tagged fields in struct order
Marshal(c) ==
    <<123>> \o MarshalField(S_key, c.Key)
    \o <<44>> \o MarshalField(S_key_type, c.KeyType)
    \o <<44>> \o MarshalField(S_id, c.ID)
    \o <<44>> \o MarshalField(S_sort_by, c.SortBy)
    \o <<44>> \o MarshalField(S_direction, c.Direction)
    \o <<125>>

(***************************************************************************)
(* encoding/base64, RawURLEncoding: the URL-safe alphabet, no padding.     *)
(***************************************************************************)
\* the alphabet: A-Z a-z 0-9 - _
B64Char(v) ==
    IF v < 26 THEN 65 + v
    ELSE IF v < 52 THEN 71 + v
    ELSE IF v < 62 THEN v - 4
    ELSE IF v = 62 THEN 45
    ELSE 95

\* the decode map: the 6-bit value of a character, 255 for a character
\* outside the alphabet
B64Val(ch) ==
    IF ch >= 65 /\ ch <= 90 THEN ch - 65
    ELSE IF ch >= 97 /\ ch <= 122 THEN ch - 71
    ELSE IF ch >= 48 /\ ch <= 57 THEN ch + 4
    ELSE IF ch = 45 THEN 62
    ELSE IF ch = 95 THEN 63
    ELSE 255

\* the byte b[i], 0 past the end of b
ByteAt(b, i) == IF i <= Len(b) THEN b[i] ELSE 0

\* base64.RawURLEncoding.EncodeToString: every three bytes give four
\* characters; one or two bytes left over give two or three characters
EncodeToString(b) ==
    LET n == Len(b)
        outLen == (n \div 3) * 4 + (IF n % 3 = 0 THEN 0 ELSE (n % 3) + 1)
        Sextet(j) ==
            LET g == 3 * ((j - 1) \div 4)
                b0 == ByteAt(b, g + 1)
                b1 == ByteAt(b, g + 2)
                b2 == ByteAt(b, g + 3)
                pos == (j - 1) % 4
            IN IF pos = 0 THEN b0 \div 4
               ELSE IF pos = 1 THEN (b0 % 4) * 16 + (b1 \div 16)
               ELSE IF pos = 2 THEN (b1 % 16) * 4 + (b2 \div 64)
               ELSE b2 % 64
    IN [j \in 1..outLen |-> B64Char(Sextet(j))]

\* the decoder ignores the new line characters \r and \n
NotNewline(ch) == ch \notin {10, 13}

DropNewlines(t) == SelectSeq(t, NotNewline)

\* the bytes of a text of alphabet characters whose length is not 1 modulo
\* 4; bits left over in the last character are dropped
B64Bytes(t) ==
    LET n == Len(t)
        outLen == (n \div 4) * 3 + (IF n % 4 = 0 THEN 0 ELSE (n % 4) - 1)
        Val(i) == IF i <= n THEN B64Val(t[i]) ELSE 0
        Octet(j) ==
            LET g == 4 * ((j - 1) \div 3)
                pos == (j - 1) % 3
            IN IF pos = 0 THEN Val(g + 1) * 4 + (Val(g + 2) \div 16)
               ELSE IF pos = 1 THEN (Val(g + 2) % 16) * 16 + (Val(g + 3) \div 4)
               ELSE (Val(g + 3) % 4) * 64 + Val(g + 4)
    IN [j \in 1..outLen |-> Octet(j)]

\* base64.RawURLEncoding.DecodeString: a character outside the alphabet
\* (the padding character = included) or a dangling single character is a
\* CorruptInputError
DecodeString(tok) ==
    LET t == DropNewlines(tok) IN
    IF (\E i \in 1..Len(t) : B64Val(t[i]) = 255) \/ Len(t) % 4 = 1
    THEN [err |-> TRUE, bytes |-> <<>>]
    ELSE [err |-> FALSE, bytes |-> B64Bytes(t)]

(***************************************************************************)
(* encoding/json, reading side.  The reader covers JSON texts made of      *)
(* objects, arrays, strings, numbers and the literals true, false, null,   *)
(* with white space between the tokens.  Field names are matched to the    *)
(* struct tags exactly or, failing that, without regard to ASCII case; a   *)
(* \u escape of a surrogate is read as U+FFFD (surrogate pairs are not     *)
(* among the texts the model reads).                                       *)
(***************************************************************************)
Fail == [ok |-> FALSE, next |-> 0, kind |-> "", val |-> <<>>, members |-> <<>>]

RECURSIVE SkipWS(_, _)
SkipWS(s, i) ==
    IF i <= Len(s) /\ s[i] \in {32, 9, 10, 13} THEN SkipWS(s, i + 1) ELSE i

HexVal(ch) ==
    IF ch >= 48 /\ ch <= 57 THEN ch - 48
    ELSE IF ch >= 97 /\ ch <= 102 THEN ch - 87
    ELSE IF ch >= 65 /\ ch <= 70 THEN ch - 55
    ELSE 255

\* utf8.AppendRune of a code point of the basic plane
Utf8Enc(cp) ==
    IF cp < 128 THEN <<cp>>
    ELSE IF cp < 2048 THEN <<192 + (cp \div 64), 128 + (cp % 64)>>
    ELSE IF cp >= 55296 /\ cp <= 57343 THEN RuneErrorBytes
    ELSE <<224 + (cp \div 4096), 128 + ((cp \div 64) % 64), 128 + (cp % 64)>>

\* the byte a one-character escape stands for, 255 for an unknown escape
Unescape(e) ==
    IF e \in {34, 92, 47} THEN e
    ELSE IF e = 98 THEN 8
    ELSE IF e = 102 THEN 12
    ELSE IF e = 110 THEN 10
    ELSE IF e = 114 THEN 13
    ELSE IF e = 116 THEN 9
    ELSE 255

Cons(pre, r) == IF r.ok THEN [r EXCEPT !.val = pre \o r.val] ELSE r

\* the string literal whose opening quote is at s[i - 1]: its value with
\* the escapes resolved and ill-formed UTF-8 replaced by U+FFFD
RECURSIVE ScanString(_, _)
ScanString(s, i) ==
    IF i > Len(s) THEN Fail
    ELSE LET b == s[i] IN
        IF b = 34 THEN [Fail EXCEPT !.ok = TRUE, !.next = i + 1, !.kind = "string"]
        ELSE IF b < 32 THEN Fail
        ELSE IF b = 92 THEN
            IF i + 1 > Len(s) THEN Fail
            ELSE IF s[i + 1] = 117 THEN
                IF i + 5 > Len(s) \/ \E k \in 2..5 : HexVal(s[i + k]) = 255 THEN Fail
                ELSE Cons(Utf8Enc(HexVal(s[i + 2]) * 4096 + HexVal(s[i + 3]) * 256
                                  + HexVal(s[i + 4]) * 16 + HexVal(s[i + 5])),
                          ScanString(s, i + 6))
            ELSE IF Unescape(s[i + 1]) = 255 THEN Fail
            ELSE Cons(<<Unescape(s[i + 1])>>, ScanString(s, i + 2))
        ELSE LET n == RuneLen(s, i) IN
            IF n = 0 THEN Cons(RuneErrorBytes, ScanString(s, i + 1))
            ELSE Cons(SubSeq(s, i, i + n - 1), ScanString(s, i + n))

IsDigit(s, i) == i <= Len(s) /\ s[i] >= 48 /\ s[i] <= 57

RECURSIVE DigitsEnd(_, _)
DigitsEnd(s, i) == IF IsDigit(s, i) THEN DigitsEnd(s, i + 1) ELSE i

\* the index after the number that starts at s[i], 0 when there is none
ScanNumber(s, i) ==
    LET a == IF i <= Len(s) /\ s[i] = 45 THEN i + 1 ELSE i
        b == IF ~IsDigit(s, a) THEN 0
             ELSE IF s[a] = 48 THEN a + 1 ELSE DigitsEnd(s, a)
        c == IF b = 0 THEN 0
             ELSE IF b <= Len(s) /\ s[b] = 46
                  THEN (IF IsDigit(s, b + 1) THEN DigitsEnd(s, b + 1) ELSE 0)
             ELSE b
        d == IF c = 0 THEN 0
             ELSE IF c <= Len(s) /\ s[c] \in {101, 69}
                  THEN LET e == IF c + 1 <= Len(s) /\ s[c + 1] \in {43, 45}
                                THEN c + 2 ELSE c + 1
                       IN IF IsDigit(s, e) THEN DigitsEnd(s, e) ELSE 0
             ELSE c
    IN d

MatchAt(s, i, lit) ==
    i + Len(lit) - 1 <= Len(s) /\ SubSeq(s, i, i + Len(lit) - 1) = lit

\* the member m put before the members that follow it
MemberRest(m, rest) ==
    IF rest.ok THEN [rest EXCEPT !.members = <<m>> \o rest.members] ELSE Fail

RECURSIVE ScanValue(_, _), ScanMembers(_, _), ScanElements(_, _)
RECURSIVE MemberColon(_, _), MemberValue(_, _, _), MemberEnd(_, _, _), MemberNext(_, _, _)
RECURSIVE ElementEnd(_, _), ElementNext(_, _)
\* the JSON value that starts at s[i]
ScanValue(s, i) ==
    IF i > Len(s) THEN Fail
    ELSE LET b == s[i] IN
        IF b = 34 THEN ScanString(s, i + 1)
        ELSE IF b = 123 THEN
            LET j == SkipWS(s, i + 1) IN
            IF j <= Len(s) /\ s[j] = 125
            THEN [Fail EXCEPT !.ok = TRUE, !.next = j + 1, !.kind = "object"]
            ELSE ScanMembers(s, j)
        ELSE IF b = 91 THEN
            LET j == SkipWS(s, i + 1) IN
            IF j <= Len(s) /\ s[j] = 93
            THEN [Fail EXCEPT !.ok = TRUE, !.next = j + 1, !.kind = "array"]
            ELSE ScanElements(s, j)
        ELSE IF MatchAt(s, i, S_true)
            THEN [Fail EXCEPT !.ok = TRUE, !.next = i + 4, !.kind = "bool"]
        ELSE IF MatchAt(s, i, S_false)
            THEN [Fail EXCEPT !.ok = TRUE, !.next = i + 5, !.kind = "bool"]
        ELSE IF MatchAt(s, i, <<110, 117, 108, 108>>)
            THEN [Fail EXCEPT !.ok = TRUE, !.next = i + 4, !.kind = "null"]
        ELSE IF ScanNumber(s, i) # 0
            THEN [Fail EXCEPT !.ok = TRUE, !.next = ScanNumber(s, i), !.kind = "number"]
        ELSE Fail

\* the members of an object from the member that starts at s[i] on, up to
\* and including the closing brace
ScanMembers(s, i) ==
    IF i > Len(s) \/ s[i] # 34 THEN Fail ELSE MemberColon(s, ScanString(s, i + 1))

\* after the member's name: the colon and the member's value
MemberColon(s, name) ==
    IF ~name.ok THEN Fail ELSE MemberValue(s, name, SkipWS(s, name.next))

MemberValue(s, name, c) ==
    IF c > Len(s) \/ s[c] # 58 THEN Fail
    ELSE MemberEnd(s, name, ScanValue(s, SkipWS(s, c + 1)))

\* after the member's value v: the closing brace, or a comma and the
\* remaining members
MemberEnd(s, name, v) ==
    IF ~v.ok THEN Fail
    ELSE MemberNext(s, [name |-> name.val, kind |-> v.kind, val |-> v.val],
                    SkipWS(s, v.next))

MemberNext(s, m, e) ==
    IF e > Len(s) THEN Fail
    ELSE IF s[e] = 125
    THEN [Fail EXCEPT !.ok = TRUE, !.next = e + 1, !.kind = "object", !.members = <<m>>]
    ELSE IF s[e] = 44 THEN MemberRest(m, ScanMembers(s, SkipWS(s, e + 1)))
    ELSE Fail

\* the elements of an array from the element that starts at s[i] on
ScanElements(s, i) == ElementEnd(s, ScanValue(s, i))

ElementEnd(s, v) == IF ~v.ok THEN Fail ELSE ElementNext(s, SkipWS(s, v.next))

ElementNext(s, e) ==
    IF e > Len(s) THEN Fail
    ELSE IF s[e] = 93
    THEN [Fail EXCEPT !.ok = TRUE, !.next = e + 1, !.kind = "array"]
    ELSE IF s[e] = 44 THEN ScanElements(s, SkipWS(s, e + 1))
    ELSE Fail

\* the zero value of NotesPagination
ZeroCursor ==
    [Key |-> <<>>, KeyType |-> <<>>, ID |-> <<>>, SortBy |-> <<>>, Direction |-> <<>>]

\* the struct field a member name selects, "" when it selects none
FieldOf(name) ==
    LET n == ToLower(name) IN
    IF n = S_key THEN "Key"
    ELSE IF n = S_key_type THEN "KeyType"
    ELSE IF n = S_id THEN "ID"
    ELSE IF n = S_sort_by THEN "SortBy"
    ELSE IF n = S_direction THEN "Direction"
    ELSE ""

\* the members stored into the struct in their order in the text: a string
\* sets its field, null leaves it alone, any other value is a type error
\* that is remembered while the remaining members are still stored
RECURSIVE StoreMembers(_, _, _)
StoreMembers(ms, k, acc) ==
    IF k > Len(ms) THEN acc
    ELSE LET m == ms[k]
             f == FieldOf(m.name)
         IN IF f = "" \/ m.kind = "null" THEN StoreMembers(ms, k + 1, acc)
            ELSE IF m.kind = "string"
            THEN StoreMembers(ms, k + 1, [acc EXCEPT !.p = [acc.p EXCEPT ![f] = m.val]])
            ELSE StoreMembers(ms, k + 1, [acc EXCEPT !.err = TRUE])

\* the value v read from all of b stored into a zero NotesPagination
StoreValue(b, v) ==
    IF ~v.ok \/ SkipWS(b, v.next) <= Len(b) THEN [err |-> TRUE, p |-> ZeroCursor]
    ELSE IF v.kind = "null" THEN [err |-> FALSE, p |-> ZeroCursor]
    ELSE IF v.kind # "object" THEN [err |-> TRUE, p |-> ZeroCursor]
    ELSE StoreMembers(v.members, 1, [err |-> FALSE, p |-> ZeroCursor])

\* json.Unmarshal(b, &p) into a zero NotesPagination
Unmarshal(b) == StoreValue(b, ScanValue(b, SkipWS(b, 1)))

(***************************************************************************)
(* The page-token codec of internal/utils                                  *)
(***************************************************************************)
\* EncodePaginationToken: json.Marshal cannot fail on a struct of strings,
\* so the error result is always nil
EncodePaginationToken(c) == [err |-> FALSE, token |-> EncodeToString(Marshal(c))]

\* the check of the five fields with the id left out
AnyFieldEmptyButID(p) ==
    p.Key = <<>> \/ p.SortBy = <<>> \/ p.Direction = <<>> \/ p.KeyType = <<>>

AnyFieldEmpty(p) ==
    p.Key = <<>> \/ p.SortBy = <<>> \/ p.Direction = <<>> \/ p.ID = <<>> \/ p.KeyType = <<>>

\* what DecodePaginationToken returns after json.Unmarshal returned u;
\* isNil tells that the returned pointer is nil
CheckCursor(u) ==
    IF u.err THEN [err |-> TRUE, isNil |-> TRUE, p |-> ZeroCursor]
    ELSE IF AnyFieldEmpty(u.p) THEN [err |-> TRUE, isNil |-> FALSE, p |-> u.p]
    ELSE [err |-> FALSE, isNil |-> FALSE, p |-> u.p]

\* what DecodePaginationToken returns after DecodeString returned b
DecodeBytes(b) ==
    IF b.err THEN [err |-> TRUE, isNil |-> TRUE, p |-> ZeroCursor]
    ELSE CheckCursor(Unmarshal(b.bytes))

\* the decoding without the case of the empty token
DecodeNonEmptyToken(tok) == DecodeBytes(DecodeString(tok))

DecodePaginationToken(tok) ==
    IF tok = <<>> THEN [err |-> FALSE, isNil |-> FALSE, p |-> ZeroCursor]
    ELSE DecodeBytes(DecodeString(tok))

(***************************************************************************)
(* Values of the store.  A TIMESTAMPTZ is a number of microseconds after   *)
(* 2025-01-01T00:00:00Z, below one minute; a nullable column or a pointer  *)
(* field is <<>> for NULL / nil and <<v>> for the value v.                 *)
(***************************************************************************)
Nil == <<>>

Some(v) == <<v>>

S_epoch_minute == <<50, 48, 50, 53, 45, 48, 49, 45, 48, 49, 84, 48, 48, 58, 48, 48, 58>>

RECURSIVE StripZeros(_)
StripZeros(d) ==
    IF d # <<>> /\ d[Len(d)] = 48 THEN StripZeros(SubSeq(d, 1, Len(d) - 1)) ELSE d

\* the n lowest decimal digits of v, most significant first
RECURSIVE Digits(_, _)
Digits(v, n) == IF n = 0 THEN <<>> ELSE Digits(v \div 10, n - 1) \o <<48 + (v % 10)>>

\* t.UTC().Format(time.RFC3339Nano): the fraction of the second is written
\* without its trailing zeros and left out when it is zero
FormatTime(t) ==
    LET usec == t % 1000000 IN
    S_epoch_minute \o Digits(t \div 1000000, 2)
    \o (IF usec = 0 THEN <<>> ELSE <<46>> \o StripZeros(Digits(usec, 6)))
    \o <<90>>

\* the value of a run of decimal digits
RECURSIVE DigitsVal(_)
DigitsVal(d) == IF d = <<>> THEN 0 ELSE DigitsVal(SubSeq(d, 1, Len(d) - 1)) * 10 + (d[Len(d)] - 48)

\* the store's input conversion of a text parameter to TIMESTAMPTZ, for the
\* texts of the form FormatTime writes; any other text is a conversion error
PgParseTime(s) ==
    LET bad == [ok |-> FALSE, v |-> 0]
        n == Len(s)
    IN IF ~(n >= 20 /\ MatchAt(s, 1, S_epoch_minute) /\ IsDigit(s, 18) /\ IsDigit(s, 19)
            /\ s[n] = 90)
       THEN bad
       ELSE LET sec == DigitsVal(SubSeq(s, 18, 19))
                frac == IF n = 20 THEN <<>> ELSE SubSeq(s, 21, n - 1)
            IN IF n = 20 THEN [ok |-> TRUE, v |-> sec * 1000000]
               ELSE IF s[20] # 46 \/ frac = <<>> \/ Len(frac) > 6
                       \/ \E k \in 1..Len(frac) : frac[k] < 48 \/ frac[k] > 57
               THEN bad
               ELSE [ok |-> TRUE,
                     v |-> sec * 1000000
                           + DigitsVal(frac \o [k \in 1..(6 - Len(frac)) |-> 48])]

\* the store's input conversion of a text parameter to BOOLEAN: the unique
\* prefixes of true, false, yes, no, on, off and the digits 1 and 0
PgParseBool(s) ==
    LET l == ToLower(s)
        IsPrefix(w, lo) == Len(l) >= lo /\ Len(l) <= Len(w) /\ SubSeq(w, 1, Len(l)) = l
    IN IF IsPrefix(S_true, 1) \/ IsPrefix(<<121, 101, 115>>, 1) \/ l = <<111, 110>> \/ l = <<49>>
       THEN [ok |-> TRUE, v |-> 1]
       ELSE IF IsPrefix(S_false, 1) \/ IsPrefix(<<110, 111>>, 1)
               \/ IsPrefix(<<111, 102, 102>>, 2) \/ l = <<48>>
       THEN [ok |-> TRUE, v |-> 0]
       ELSE [ok |-> FALSE, v |-> 0]

\* strconv.FormatBool
FormatBool(b) == IF b THEN S_true ELSE S_false

\* the order of TEXT values: byte by byte, a proper prefix first
RECURSIVE LexLess(_, _)
LexLess(a, b) ==
    IF b = <<>> THEN FALSE
    ELSE IF a = <<>> THEN TRUE
    ELSE IF Head(a) # Head(b) THEN Head(a) < Head(b)
    ELSE LexLess(Tail(a), Tail(b))

(***************************************************************************)
(* The query ListNotes builds, as the store executes it.  The store folds  *)
(* the unquoted column name n.<sortBy> to lower case; a cursor key is a    *)
(* text parameter that the store converts to the type of the column it is  *)
(* compared with.                                                          *)
(***************************************************************************)
DbColumn(sortBy) == ToLower(sortBy)

ColType(col) ==
    IF col = S_title THEN "text" ELSE IF col = S_is_pinned THEN "bool" ELSE "time"

ColVal(r, col) ==
    IF col = S_title THEN r.title
    ELSE IF col = S_is_pinned THEN (IF r.is_pinned THEN 1 ELSE 0)
    ELSE IF col = S_created_at THEN r.created_at
    ELSE r.updated_at

Coerce(col, key) ==
    IF ColType(col) = "text" THEN [ok |-> TRUE, v |-> key]
    ELSE IF ColType(col) = "bool" THEN PgParseBool(key)
    ELSE PgParseTime(key)

\* a < b on values of the column's type
ValLess(col, a, b) == IF ColType(col) = "text" THEN LexLess(a, b) ELSE a < b

\* a op b for the comparison operator op, "<" or ">"
ValCmp(col, a, op, b) == IF op = "<" THEN ValLess(col, a, b) ELSE ValLess(col, b, a)

IdCmp(a, op, b) == IF op = "<" THEN LexLess(a, b) ELSE LexLess(b, a)

\* the predicate without the tie-break on the id
KeysetNoTieBreak(r, col, op, k, cid) == ValCmp(col, ColVal(r, col), op, k)

\* (n.<sortBy> op key OR (n.<sortBy> = key AND n.id op id))
KeysetPredicate(r, col, op, k, cid) ==
    \/ ValCmp(col, ColVal(r, col), op, k)
    \/ (ColVal(r, col) = k /\ IdCmp(r.id, op, cid))

\* the text-search condition on title and content, for documents and
\* queries of one lexeme each that is no stop word
FtsMatch(r, q) == r.title = q \/ r.content = Some(q)

\* the WHERE conditions of the three optional filters
Matches(r, f) ==
    /\ f.ProjectID # Nil => r.project_id = f.ProjectID
    /\ f.UserID # Nil => r.author_id = f.UserID[1]
    /\ (f.Query # Nil /\ f.Query[1] # <<>>) => FtsMatch(r, f.Query[1])

\* ORDER BY n.<sortBy> dir, n.id: the ids ascending, whatever the direction
BeforeIdAscending(r, q, col, dir) ==
    LET op == IF dir = S_ASC THEN "<" ELSE ">" IN
    \/ ValCmp(col, ColVal(r, col), op, ColVal(q, col))
    \/ (ColVal(r, col) = ColVal(q, col) /\ IdCmp(r.id, "<", q.id))

\* ORDER BY n.<sortBy> dir, n.id dir: r comes before q
Before(r, q, col, dir) ==
    LET op == IF dir = S_ASC THEN "<" ELSE ">" IN
    \/ ValCmp(col, ColVal(r, col), op, ColVal(q, col))
    \/ (ColVal(r, col) = ColVal(q, col) /\ IdCmp(r.id, op, q.id))

\* the first limit rows of the set rows in the order of the query
RECURSIVE OrderLimit(_, _, _, _)
OrderLimit(rows, col, dir, limit) ==
    IF rows = {} \/ limit = 0 THEN <<>>
    ELSE LET first == CHOOSE r \in rows : \A q \in rows \ {r} : Before(r, q, col, dir)
         IN <<first>> \o OrderLimit(rows \ {first}, col, dir, limit - 1)

(***************************************************************************)
(* Database.ListNotes                                                      *)
(***************************************************************************)
MinPageSize == 10

MaxPageSize == 100

\* the clamping without the lower limit
ClampPageSizeNoMin(n) == IF n > MaxPageSize THEN MaxPageSize ELSE n

\* the page size in force: the requested size clamped
ClampPageSize(n) ==
    IF n < MinPageSize THEN MinPageSize
    ELSE IF n > MaxPageSize THEN MaxPageSize
    ELSE n

\* the sort column: the request's own spelling when its lower case is one
\* of the four columns, updated_at otherwise
SortColumn(f) ==
    IF ToLower(f.SortBy) \in {S_updated_at, S_created_at, S_title, S_is_pinned}
    THEN f.SortBy
    ELSE S_updated_at

SortDir(f) == IF f.SortDesc THEN S_DESC ELSE S_ASC

\* what the decoding of the page token contributes to the query: whether a
\* keyset condition is added, and its key and id
\* the cursor of any non-empty token, decoded or not
CursorOfAnyToken(tok, d) == [applied |-> tok # <<>>, Key |-> d.p.Key, ID |-> d.p.ID]

CursorOf(tok, d) == [applied |-> tok # <<>> /\ ~d.err, Key |-> d.p.Key, ID |-> d.p.ID]

PageCursor(f) == CursorOf(f.PageToken, DecodePaginationToken(f.PageToken))

\* a models.Note as scanned from a row of the SELECT, with the author
\* made of the joined actors columns (NULL when no actor row joins)
NoteOf(r, as) ==
    [ID |-> r.id, ProjectID |-> r.project_id, AuthorID |-> r.author_id,
     Title |-> r.title, Content |-> r.content, IsPinned |-> r.is_pinned,
     CreatedAt |-> r.created_at, UpdatedAt |-> r.updated_at,
     Author |-> IF r.author_id \in DOMAIN as
                THEN [ID |-> r.author_id,
                      DisplayName |-> as[r.author_id].display_name,
                      AvatarURL |-> as[r.author_id].avatar_url]
                ELSE [ID |-> <<>>, DisplayName |-> Nil, AvatarURL |-> Nil]]

\* the comparison of an ascending order, whatever the direction
KeysetOpAscending(dir) == ">"

\* the comparison of the keyset condition
KeysetOp(dir) == IF dir = S_ASC THEN ">" ELSE "<"

\* the rows the WHERE clause keeps, for the cursor c with its key k
\* converted to the type of the column
WhereRows(rows, f, col, c, k) ==
    {r \in rows : /\ Matches(r, f)
                  /\ c.applied => KeysetPredicate(r, col, KeysetOp(SortDir(f)), k, c.ID)}

NotesOf(page, as) == [i \in 1..Len(page) |-> NoteOf(page[i], as)]

\* the notes made of the rows the SELECT returns, for the cursor c
SelectNotes(rows, as, f, c) ==
    NotesOf(OrderLimit(WhereRows(rows, f, DbColumn(SortColumn(f)), c,
                                 Coerce(DbColumn(SortColumn(f)), c.Key).v),
                       DbColumn(SortColumn(f)), SortDir(f), ClampPageSize(f.PageSize)),
            as)

\* a page that is never taken to be full
PageIsFullNever(n, f) == n > ClampPageSize(f.PageSize)

\* whether a next-page token is made for a page of n notes
PageIsFull(n, f) == n = ClampPageSize(f.PageSize)

\* the cursor made from the last note of a full page
NextCursor(last, f) ==
    LET sortBy == SortColumn(f) IN
    [Key |-> IF sortBy = S_updated_at THEN FormatTime(last.UpdatedAt)
             ELSE IF sortBy = S_created_at THEN FormatTime(last.CreatedAt)
             ELSE IF sortBy = S_title THEN last.Title
             ELSE IF sortBy = S_is_pinned THEN FormatBool(last.IsPinned)
             ELSE FormatTime(last.UpdatedAt),
     KeyType |-> IF sortBy = S_title THEN S_string
                 ELSE IF sortBy = S_is_pinned THEN S_bool
                 ELSE S_time,
     ID |-> last.ID,
     SortBy |-> sortBy,
     Direction |-> SortDir(f)]

TokenOrNone(e) == IF e.err THEN <<>> ELSE e.token

NextToken(page, f) ==
    IF PageIsFull(Len(page), f)
    THEN TokenOrNone(EncodePaginationToken(NextCursor(page[Len(page)], f)))
    ELSE <<>>

ErrorResult(code) == [err |-> code, notes |-> <<>>, next |-> <<>>]

\* ListNotes(ctx, filter) on the store (rows, as).  c is the state of the
\* context: "live", done before the query ("canceled", "deadline"), or
\* cancelled while the query runs ("canceled_in_query").  A cursor key the
\* store cannot convert to the column's type fails the query.
PageResult(page, f) == [err |-> "", notes |-> page, next |-> NextToken(page, f)]

QueryResult(rows, as, f, cur) ==
    IF cur.applied /\ ~Coerce(DbColumn(SortColumn(f)), cur.Key).ok
    THEN ErrorResult("Internal")
    ELSE PageResult(SelectNotes(rows, as, f, cur), f)

ListNotes(rows, as, f, c) ==
    IF c = "canceled" THEN ErrorResult("Canceled")
    ELSE IF c = "deadline" THEN ErrorResult("DeadlineExceeded")
    ELSE IF c = "canceled_in_query" THEN ErrorResult("Internal")
    ELSE QueryResult(rows, as, f, PageCursor(f))

(***************************************************************************)
(* The stores and requests of the model                                    *)
(***************************************************************************)
MaxNotes == 12

MaxVals == 3

MaxCalls == 4

S_u1 == <<117, 49>>
S_u2 == <<117, 50>>
S_p1 == <<112, 49>>
S_p2 == <<112, 50>>
S_alpha == <<97, 108, 112, 104, 97>>
S_beta == <<98, 101, 116, 97>>
S_Title == <<84, 105, 116, 108, 101>>
S_Is_Pinned == <<73, 115, 95, 80, 105, 110, 110, 101, 100>>

NoteId(i) == <<110>> \o Digits(i, 2)

\* the v-th timestamp: whole seconds and fractions of a second
TimeOf(v) == 1000000 * (v + 1) + 250000 * (v % 3)

\* the k-th title: "", "a", "a<", "b", "b<", ...
TitleOf(k) ==
    IF k = 0 THEN <<>>
    ELSE IF k % 2 = 1 THEN <<96 + ((k + 1) \div 2)>>
    ELSE <<96 + (k \div 2), 60>>

\* the i-th note of a store whose sort columns take m values; base 0 gives
\* the notes of value 0 the empty title
NoteRow(i, m, base) ==
    [id |-> NoteId(i),
     project_id |-> IF i = 5 THEN Nil ELSE IF i = 7 THEN Some(S_p2) ELSE Some(S_p1),
     author_id |-> IF i = 4 THEN S_u2 ELSE S_u1,
     title |-> TitleOf(base + (i % m)),
     content |-> IF i = 2 THEN Nil ELSE IF i = 3 THEN Some(S_beta) ELSE Some(S_alpha),
     is_pinned |-> (i % m) % 2 = 1,
     created_at |-> TimeOf((i \div 2) % m),
     updated_at |-> TimeOf(i % m)]

Stores ==
    {{NoteRow(i, m, base) : i \in 1..n} : n \in 0..MaxNotes, m \in 1..MaxVals, base \in 0..1}

ActorRows ==
    [a \in {S_u1, S_u2} |->
        [display_name |-> IF a = S_u1 THEN Some(S_alpha) ELSE Nil, avatar_url |-> Nil]]

SortBys == {<<>>, S_updated_at, S_created_at, S_title, S_is_pinned, S_Title, S_Is_Pinned, S_id}

PageSizes == {5, 11, 500}

Scopes ==
    {[ProjectID |-> Nil, UserID |-> Nil, Query |-> Nil],
     [ProjectID |-> Some(S_p1), UserID |-> Nil, Query |-> Some(<<>>)],
     [ProjectID |-> Nil, UserID |-> Some(S_u1), Query |-> Nil],
     [ProjectID |-> Nil, UserID |-> Nil, Query |-> Some(S_alpha)]}

Requests ==
    {[ProjectID |-> sc.ProjectID, UserID |-> sc.UserID, Query |-> sc.Query,
      SortBy |-> sb, SortDesc |-> sd, PageSize |-> ps, PageToken |-> <<>>] :
        sc \in Scopes, sb \in SortBys, sd \in BOOLEAN, ps \in PageSizes}

CtxStates == {"live", "canceled", "deadline", "canceled_in_query"}

NoResp == [err |-> "", notes |-> <<>>, next |-> <<>>]

NoDecode == [err |-> FALSE, isNil |-> TRUE, p |-> ZeroCursor]

NoteIds(page) == [i \in 1..Len(page) |-> page[i].ID]

(***************************************************************************)
(* A pagination run: a caller lists with an empty page token and passes    *)
(* every next-page token back, with the filter otherwise unchanged, while  *)
(* the store does not change.                                              *)
(***************************************************************************)
Init ==
    /\ notes \in Stores
    /\ actors = ActorRows
    /\ filter \in Requests
    /\ resp = NoResp
    /\ seen = <<>>
    /\ calls = 0
    /\ pc = "start"
    /\ cursor = ZeroCursor
    /\ token = <<>>
    /\ decoded = NoDecode
    /\ RestIdle

After(r) == IF r.err # "" THEN "failed" ELSE IF r.next = <<>> THEN "done" ELSE "more"

\* a ListNotes that takes the read lock: it waits while a writer holds Mu
ListNotesWaitsForWriter(m) == m.writer # 0

\* whether ListNotes waits in the state m of Database.Mu: it has no call
\* of Mu, so it never does
ListNotesWaits(m) == FALSE

FirstPage(c) ==
    /\ pc = "start"
    /\ ~ListNotesWaits(mu)
    /\ resp' = ListNotes(notes, actors, filter, c)
    /\ seen' = NoteIds(resp'.notes)
    /\ pc' = After(resp')
    /\ calls' = 1
    /\ UNCHANGED <<notes, actors, filter, cursor, token, decoded, others>>

NextPage(c) ==
    /\ pc = "more"
    /\ calls < MaxCalls
    /\ ~ListNotesWaits(mu)
    /\ filter' = [filter EXCEPT !.PageToken = resp.next]
    /\ resp' = ListNotes(notes, actors, filter', c)
    /\ seen' = seen \o NoteIds(resp'.notes)
    /\ pc' = After(resp')
    /\ calls' = calls + 1
    /\ UNCHANGED <<notes, actors, cursor, token, decoded, others>>

Next ==
    \/ \E c \in CtxStates : FirstPage(c)
    \/ \E c \in CtxStates : NextPage(c)

Spec == Init /\ [][Next]_vars

(***************************************************************************)
(* What the claims speak of, stated apart from the query                   *)
(***************************************************************************)
\* the rows the run's filter selects
Matching == {r \in notes : Matches(r, filter)}

\* the column and the direction the run is ordered by
RunCol == DbColumn(SortColumn(filter))

RunDir == SortDir(filter)

RowOf(id) == CHOOSE r \in notes : r.id = id

\* the requested page size after clamping to [10, 100]
PageSizeInForce ==
    IF filter.PageSize < 10 THEN 10
    ELSE IF filter.PageSize > 100 THEN 100
    ELSE filter.PageSize

\* the last call succeeded
Returned == pc \in {"more", "done"}

PageIds == NoteIds(resp.notes)

\* the cursor the last call was given, when its token decoded to one
GivenCursor == DecodePaginationToken(filter.PageToken)

HasValidCursor == filter.PageToken # <<>> /\ ~GivenCursor.err

\* row r lies strictly after the position (key, id) in the run's order
StrictlyAfter(r, key, id) ==
    LET k == Coerce(RunCol, key).v
        v == ColVal(r, RunCol)
    IN IF RunDir = S_DESC
       THEN ValLess(RunCol, v, k) \/ (v = k /\ LexLess(r.id, id))
       ELSE ValLess(RunCol, k, v) \/ (v = k /\ LexLess(id, r.id))

\* the ids of seq are those of rows of the run's order, each before the next
InRunOrder(ids) ==
    \A i, j \in 1..Len(ids) :
        i < j => Before(RowOf(ids[i]), RowOf(ids[j]), RunCol, RunDir)

\* C1: a pagination run over an unchanged store returns the matching rows
\* in (sort column, id) order of the requested direction, none twice, and,
\* once the empty token is returned, every matching row.
C1_RunYieldsEveryRowOnceInOrder ==
    Returned =>
        /\ \A i \in 1..Len(seen) : \E r \in Matching : r.id = seen[i]
        /\ \A i, j \in 1..Len(seen) : i # j => seen[i] # seen[j]
        /\ InRunOrder(seen)
        /\ pc = "done" => \A r \in Matching : \E i \in 1..Len(seen) : seen[i] = r.id

\* C2: given a token that decodes to a valid cursor, a successful call
\* returns exactly the first page-size rows strictly after the cursor
\* position (key, id) in the (sort column, id) order of the request.
C2_PageIsFirstRowsAfterCursor ==
    (Returned /\ HasValidCursor) =>
        LET c == GivenCursor.p
            after == {r \in Matching : StrictlyAfter(r, c.Key, c.ID)}
            got == {RowOf(PageIds[i]) : i \in 1..Len(PageIds)}
        IN /\ got \subseteq after
           /\ Cardinality(got) = Len(PageIds)
           /\ InRunOrder(PageIds)
           /\ Len(PageIds) = IF Cardinality(after) < PageSizeInForce
                             THEN Cardinality(after) ELSE PageSizeInForce
           /\ \A r \in after \ got : \A q \in got : Before(q, r, RunCol, RunDir)

\* C2 witness: a call with a valid cursor returned a page although rows
\* sharing the cursor's key lie on both sides of the cursor position
C2_Witness ==
    /\ Returned /\ HasValidCursor /\ resp.notes # <<>>
    /\ \E r \in Matching :
        /\ ColVal(r, RunCol) = Coerce(RunCol, GivenCursor.p.Key).v
        /\ StrictlyAfter(r, GivenCursor.p.Key, GivenCursor.p.ID)
    /\ \E r \in Matching :
        /\ ColVal(r, RunCol) = Coerce(RunCol, GivenCursor.p.Key).v
        /\ ~StrictlyAfter(r, GivenCursor.p.Key, GivenCursor.p.ID)

\* C3: for a successful call the next-page token is non-empty exactly when
\* the number of returned notes equals the page size in force, and the
\* number of returned notes never exceeds it.
C3_TokenIffFullPage ==
    Returned =>
        /\ resp.next # <<>> <=> Len(resp.notes) = PageSizeInForce
        /\ Len(resp.notes) <= PageSizeInForce

\* C3 witness: a full page with its token was returned for a request whose
\* size was raised to the minimum
C3_Witness ==
    /\ Returned /\ resp.next # <<>>
    /\ Len(resp.notes) = 10 /\ filter.PageSize < 10

C5_RunTerminates ==
    Returned =>
        /\ calls <= (Cardinality(Matching) \div PageSizeInForce) + 1
        /\ LET before == SubSeq(seen, 1, Len(seen) - Len(resp.notes)) IN
           (calls >= 2 /\ \A r \in Matching : \E i \in 1..Len(before) : before[i] = r.id)
               => (resp.notes = <<>> /\ resp.next = <<>>)

\* C6: every non-empty next-page token that is returned decodes without
\* error.
C6_ReturnedTokenDecodes ==
    (Returned /\ resp.next # <<>>) => ~DecodePaginationToken(resp.next).err

\* the text and the type tag of a note's value in the run's column
KeyTextOf(n) ==
    IF RunCol = S_title THEN n.Title
    ELSE IF RunCol = S_is_pinned THEN (IF n.IsPinned THEN S_true ELSE S_false)
    ELSE IF RunCol = S_created_at THEN FormatTime(n.CreatedAt)
    ELSE FormatTime(n.UpdatedAt)

KeyTypeOfRunCol ==
    IF RunCol = S_title THEN S_string
    ELSE IF RunCol = S_is_pinned THEN S_bool
    ELSE S_time

\* C7: the cursor in a returned token describes the last row of the page
\* under the order used: its id, the ordering column, the direction, and
\* the row's value in that column with the column's type tag.
C7_CursorDescribesLastRow ==
    (Returned /\ resp.next # <<>>) =>
        LET c == DecodePaginationToken(resp.next).p
            last == resp.notes[Len(resp.notes)]
        IN /\ c.ID = last.ID
           /\ ToLower(c.SortBy) = RunCol
           /\ c.Direction = RunDir
           /\ c.Key = KeyTextOf(last)
           /\ c.KeyType = KeyTypeOfRunCol

(***************************************************************************)
(* The codec on its own: EncodePaginationToken applied to cursors and      *)
(* DecodePaginationToken applied to its tokens and to tokens a caller      *)
(* made up.                                                                *)
(***************************************************************************)
MaxStrLen == 2

\* bytes of cursor strings: a letter, the quote, an HTML byte, a new line,
\* a byte no UTF-8 text holds, and the two bytes of a two-byte rune
KeyBytes == {97, 34, 60, 10, 255, 195, 169}

RECURSIVE StringsUpTo(_)
StringsUpTo(n) ==
    IF n = 0 THEN {<<>>}
    ELSE LET shorter == StringsUpTo(n - 1) IN
         shorter \cup {Append(t, b) : t \in shorter, b \in KeyBytes}

Cursors ==
    {[Key |-> k, KeyType |-> kt, ID |-> id, SortBy |-> sb, Direction |-> d] :
        k \in StringsUpTo(MaxStrLen), kt \in {<<>>, S_time}, id \in {<<>>, NoteId(1)},
        sb \in {<<>>, S_title}, d \in {<<>>, S_DESC}}

GoodCursor ==
    [Key |-> <<97>>, KeyType |-> S_string, ID |-> NoteId(1), SortBy |-> S_title,
     Direction |-> S_ASC]

GoodJson == Marshal(GoodCursor)

Quoted(s) == <<34>> \o s \o <<34>>

\* the text of GoodCursor with the member "key" written as name:value
JsonWithKey(name, value) ==
    <<123>> \o Quoted(name) \o <<58>> \o value \o SubSeq(GoodJson, 11, Len(GoodJson))

\* JSON texts and other texts a forged token may carry
ForgedTexts ==
    {GoodJson,
     <<32>> \o GoodJson \o <<10>>,
     SubSeq(GoodJson, 1, Len(GoodJson) - 1),
     GoodJson \o <<125>>,
     <<97, 98, 99>>,
     <<91, 93>>,
     <<110, 117, 108, 108>>,
     <<123, 125>>,
     Quoted(<<97>>),
     <<49>>,
     JsonWithKey(S_key, <<53>>),
     JsonWithKey(S_key, <<110, 117, 108, 108>>),
     JsonWithKey(S_key, S_true),
     JsonWithKey(S_key, <<91, 49, 44, 123, 125, 93>>),
     JsonWithKey(S_key, Quoted(<<>>)),
     JsonWithKey(<<75, 69, 89>>, Quoted(<<98>>)),
     JsonWithKey(<<120>>, <<49>>),
     JsonWithKey(S_key, Quoted(<<92, 117, 48, 48, 54, 49>>)),
     SubSeq(GoodJson, 1, Len(GoodJson) - 1) \o <<44>> \o Quoted(S_id) \o <<58>>
         \o Quoted(<<>>) \o <<125>>}

S_not_valid_base64 ==
    <<110, 111, 116, 45, 118, 97, 108, 105, 100, 45, 98, 97, 115, 101, 54, 52, 33, 33>>

GoodToken == EncodeToString(GoodJson)

ForgedTokens ==
    {EncodeToString(t) : t \in ForgedTexts}
    \cup {<<>>, S_not_valid_base64, <<65>>, <<10>>,
          GoodToken \o <<61>>, GoodToken \o <<10>>, <<13>> \o GoodToken,
          GoodToken \o <<32>>, SubSeq(GoodToken, 1, Len(GoodToken) - 1),
          SubSeq(GoodToken, 1, Len(GoodToken) - 2),
          SubSeq(GoodToken, 1, Len(GoodToken) - 1) \o <<95>>}

ZeroFilter ==
    [ProjectID |-> Nil, UserID |-> Nil, Query |-> Nil, SortBy |-> <<>>,
     SortDesc |-> FALSE, PageSize |-> 0, PageToken |-> <<>>]

InitCodec ==
    /\ notes = {}
    /\ actors = ActorRows
    /\ filter = ZeroFilter
    /\ resp = NoResp
    /\ seen = <<>>
    /\ calls = 0
    /\ decoded = NoDecode
    /\ RestIdle
    /\ \/ pc = "encode" /\ cursor \in Cursors /\ token = <<>>
       \/ pc = "decode" /\ cursor = ZeroCursor /\ token \in ForgedTokens

EncodeCursor ==
    /\ pc = "encode"
    /\ token' = EncodePaginationToken(cursor).token
    /\ pc' = "encoded"
    /\ UNCHANGED <<notes, actors, filter, resp, seen, calls, cursor, decoded, others>>

DecodeToken ==
    /\ pc \in {"decode", "encoded"}
    /\ decoded' = DecodePaginationToken(token)
    /\ pc' = IF pc = "encoded" THEN "roundtrip" ELSE "decoded"
    /\ UNCHANGED <<notes, actors, filter, resp, seen, calls, cursor, token, others>>

NextCodec == EncodeCursor \/ DecodeToken

SpecCodec == InitCodec /\ [][NextCodec]_vars

(***************************************************************************)
(* What the claims on the codec speak of                                   *)
(***************************************************************************)
AllFieldsNonEmpty(c) ==
    /\ c.Key # <<>> /\ c.KeyType # <<>> /\ c.ID # <<>>
    /\ c.SortBy # <<>> /\ c.Direction # <<>>

AllFieldsValidUTF8(c) ==
    /\ ValidUTF8(c.Key) /\ ValidUTF8(c.KeyType) /\ ValidUTF8(c.ID)
    /\ ValidUTF8(c.SortBy) /\ ValidUTF8(c.Direction)

\* the characters of the URL-safe base64 alphabet: A-Z a-z 0-9 - _
IsBase64UrlChar(ch) ==
    \/ ch >= 65 /\ ch <= 90
    \/ ch >= 97 /\ ch <= 122
    \/ ch >= 48 /\ ch <= 57
    \/ ch \in {45, 95}

\* t is unpadded base64url: only characters of the alphabet, and a length
\* that some number of bytes encodes to
IsRawBase64Url(t) ==
    /\ \A i \in 1..Len(t) : IsBase64UrlChar(t[i])
    /\ Len(t) % 4 # 1

IsCRLF(ch) == ch \in {13, 10}

WithoutCRLF(t) == SelectSeq(t, LAMBDA ch : ~IsCRLF(ch))

CursorFieldNames == {S_key, S_key_type, S_id, S_sort_by, S_direction}

\* b is the cursor's JSON shape: one JSON object whose members named as
\* cursor fields hold strings (or null)
HasCursorShape(b) ==
    LET v == ScanValue(b, SkipWS(b, 1)) IN
    /\ v.ok
    /\ SkipWS(b, v.next) > Len(b)
    /\ v.kind = "object"
    /\ \A k \in 1..Len(v.members) :
        ToLower(v.members[k].name) \in CursorFieldNames
            => v.members[k].kind \in {"string", "null"}

\* token t must be rejected: it is not base64url, or its bytes are not the
\* cursor's shape, or the cursor in them has an empty field
MustReject(t) ==
    \/ ~IsRawBase64Url(t)
    \/ ~HasCursorShape(B64Bytes(t))
    \/ ~AllFieldsNonEmpty(Unmarshal(B64Bytes(t)).p)

Decoded == pc \in {"decoded", "roundtrip"}

\* C8 as amended: for every cursor whose five fields are non-empty and
\* valid UTF-8, decoding the encoded cursor gives the cursor back field by
\* field, with no error.
C8_RoundTripOfText ==
    (pc = "roundtrip" /\ AllFieldsNonEmpty(cursor) /\ AllFieldsValidUTF8(cursor)) =>
        /\ ~decoded.err
        /\ ~decoded.isNil
        /\ decoded.p = cursor

\* C8 witness: a cursor whose key needs escaping in JSON came back
C8_Witness ==
    /\ pc = "roundtrip" /\ AllFieldsNonEmpty(cursor)
    /\ cursor.Key = <<34, 60>>
    /\ ~decoded.err /\ decoded.p = cursor

\* C8 as stated: for every cursor whose five fields are non-empty, decoding
\* the encoded cursor gives the cursor back, with no error.
C8_RoundTripOfAnyCursor ==
    (pc = "roundtrip" /\ AllFieldsNonEmpty(cursor)) =>
        /\ ~decoded.err
        /\ decoded.p = cursor

\* C9 as amended: decoding fails for every non-empty token that, with its
\* CR and LF characters dropped, is not unpadded base64url, or whose bytes
\* are not the cursor's JSON shape, or whose cursor has an empty field.
C9_MalformedTokenRejected ==
    (Decoded /\ token # <<>> /\ MustReject(WithoutCRLF(token))) => decoded.err

\* C9 witness: the token of a cursor that lacks its id only was rejected
C9_Witness ==
    /\ pc = "roundtrip" /\ decoded.err
    /\ cursor.ID = <<>>
    /\ cursor.Key # <<>> /\ cursor.KeyType # <<>>
    /\ cursor.SortBy # <<>> /\ cursor.Direction # <<>>

\* C9 as stated: decoding fails for every non-empty token that is not
\* unpadded base64url, or whose bytes are not the cursor's JSON shape, or
\* whose cursor has an empty field.
C9_NonBase64UrlRejected ==
    (Decoded /\ token # <<>>) =>
        /\ ~IsRawBase64Url(token) => decoded.err
        /\ (IsRawBase64Url(token) /\ MustReject(token)) => decoded.err

\* C10: decoding the empty token gives the cursor with all five fields
\* empty, and no error.
C10_EmptyTokenIsEmptyCursor ==
    (pc = "decoded" /\ token = <<>>) =>
        /\ ~decoded.err
        /\ ~decoded.isNil
        /\ decoded.p = ZeroCursor

\* C10 witness: the empty token was decoded
C10_Witness ==
    /\ pc = "decoded" /\ token = <<>>
    /\ ~decoded.err /\ ~AllFieldsNonEmpty(decoded.p)

(***************************************************************************)
(* ListNotes called with a page token the caller made up                   *)
(***************************************************************************)
\* the stores of the forged-token calls: the largest ones
ForgedStores ==
    {{NoteRow(i, MaxVals, base) : i \in 1..n} : n \in {MaxNotes - 1, MaxNotes}, base \in 0..1}

ForgedRequests ==
    {[r EXCEPT !.PageToken = t] :
        r \in {q \in Requests : q.ProjectID = Nil /\ q.UserID = Nil /\ q.Query = Nil},
        t \in ForgedTokens}

InitForged ==
    /\ notes \in ForgedStores
    /\ actors = ActorRows
    /\ filter \in ForgedRequests
    /\ resp = NoResp
    /\ seen = <<>>
    /\ calls = 0
    /\ pc = "start"
    /\ cursor = ZeroCursor
    /\ token = <<>>
    /\ decoded = NoDecode
    /\ RestIdle

\* one ListNotes call with the request's own token; a call whose context
\* had ended is told apart from a call the store failed
ListWithToken(c) ==
    /\ pc = "start"
    /\ resp' = ListNotes(notes, actors, filter, c)
    /\ seen' = NoteIds(resp'.notes)
    /\ pc' = IF c = "live" THEN After(resp') ELSE "ctx_done"
    /\ calls' = 1
    /\ UNCHANGED <<notes, actors, filter, cursor, token, decoded, others>>

NextForged == \E c \in CtxStates : ListWithToken(c)

SpecForged == InitForged /\ [][NextForged]_vars

\* the request of the call, with the empty token
SameWithEmptyToken == [filter EXCEPT !.PageToken = <<>>]

\* the call ran with a live context on a token that does not decode
UndecodableTokenCall ==
    /\ pc \in {"more", "done", "failed"}
    /\ filter.PageToken # <<>>
    /\ DecodePaginationToken(filter.PageToken).err

\* C11: a call whose token fails to decode does not fail, and returns the
\* page and the next-page token of the same request with the empty token.
C11_UndecodableTokenIsFirstPage ==
    UndecodableTokenCall =>
        /\ resp.err = ""
        /\ resp.notes = ListNotes(notes, actors, SameWithEmptyToken, "live").notes
        /\ resp.next = ListNotes(notes, actors, SameWithEmptyToken, "live").next

\* C11 witness: a token that is base64url of a cursor without its id was
\* answered with a full first page and its token
C11_Witness ==
    /\ UndecodableTokenCall
    /\ ~DecodePaginationToken(filter.PageToken).isNil
    /\ resp.err = "" /\ resp.next # <<>> /\ Len(resp.notes) = PageSizeInForce

\* the call ran with a live context on a token that decodes to a cursor
\* issued for another sort column or direction than the request's
TokenOfAnotherOrder ==
    /\ pc \in {"more", "done", "failed"}
    /\ filter.PageToken # <<>>
    /\ ~DecodePaginationToken(filter.PageToken).err
    /\ \/ DecodePaginationToken(filter.PageToken).p.SortBy # SortColumn(filter)
       \/ DecodePaginationToken(filter.PageToken).p.Direction # SortDir(filter)

\* C24: the predicate of a decoded cursor is applied only when the cursor's
\* sort_by and direction are the request's sort column and direction: a
\* token of another order is answered as the empty token is.
C24_TokenOnlyUnderItsOrder ==
    TokenOfAnotherOrder => resp = ListNotes(notes, actors, SameWithEmptyToken, "live")

(***************************************************************************)
(* The ListNotes handler of the server, the conversion of its request to   *)
(* a ListNotesFilter, and NormalizeSort                                    *)
(***************************************************************************)
\* the keys of sortWhitelist
sortWhitelist == {S_created_at, S_updated_at, S_title, S_id}

NormalizeSort(sortBy) ==
    IF ToLower(sortBy) = <<>> THEN S_updated_at
    ELSE IF ToLower(sortBy) \notin sortWhitelist THEN S_updated_at
    ELSE ToLower(sortBy)

\* the clamping of ProtoToListNotesFilter with the upper limit left out
ProtoPageSizeNoMax(n) == IF n < 10 THEN 10 ELSE n

\* the clamping of the page size in ProtoToListNotesFilter
ProtoPageSize(n) == IF n < 10 THEN 10 ELSE IF n > 100 THEN 100 ELSE n

\* ProtoToListNotesFilter: an optional field of the request is <<>> when
\* it is not set
ProtoToListNotesFilter(rq) ==
    [ProjectID |-> rq.ProjectId,
     UserID |-> rq.UserId,
     Query |-> rq.Query,
     SortBy |-> IF rq.SortBy # Nil THEN rq.SortBy[1] ELSE S_updated_at,
     SortDesc |-> IF rq.SortDesc # Nil THEN rq.SortDesc[1] ELSE FALSE,
     PageSize |-> ProtoPageSize(rq.PageSize),
     PageToken |-> rq.PageToken]

\* the page sizes of the requests: below, at and above both limits
ProtoPageSizes == {-3, 0, 9, 10, 11, 12, 100, 101, 500}

ProtoRequests ==
    {[ProjectId |-> Nil, UserId |-> Nil, Query |-> Nil, SortBy |-> sb, SortDesc |-> sd,
      PageSize |-> ps, PageToken |-> <<>>] :
        sb \in {Nil} \cup {Some(x) : x \in SortBys},
        sd \in {Nil, Some(TRUE), Some(FALSE)},
        ps \in ProtoPageSizes}

InitHandler ==
    /\ notes \in ForgedStores
    /\ actors = ActorRows
    /\ filter = ZeroFilter
    /\ resp = NoResp
    /\ seen = <<>>
    /\ calls = 0
    /\ pc = "start"
    /\ cursor = ZeroCursor
    /\ token = <<>>
    /\ decoded = NoDecode
    /\ req \in ProtoRequests
    /\ normalized = <<>>
    /\ tags = {}
    /\ attachments = {}
    /\ mu = [writer |-> 0, readers |-> {}]
    /\ procs = <<>>
    /\ stable = {}
    /\ now = 0

\* noteServiceServer.ListNotes on a request that is not nil; resp holds
\* what Database.ListNotes returned, which the handler passes on
ServeListNotes(c) ==
    /\ pc = "start"
    /\ filter' = ProtoToListNotesFilter(req)
    /\ resp' = ListNotes(notes, actors, filter', c)
    /\ seen' = NoteIds(resp'.notes)
    /\ pc' = IF c = "live" THEN After(resp') ELSE "ctx_done"
    /\ calls' = 1
    /\ UNCHANGED <<notes, actors, cursor, token, decoded, req, normalized, tags,
                   attachments, mu, procs, stable, now>>

\* NormalizeSort applied to the sort column of the request
CallNormalizeSort ==
    /\ normalized = <<>>
    /\ normalized' = NormalizeSort(IF req.SortBy # Nil THEN req.SortBy[1] ELSE <<>>)
    /\ UNCHANGED <<notes, actors, filter, resp, seen, calls, pc, cursor, token, decoded,
                   req, tags, attachments, mu, procs, stable, now>>

NextHandler ==
    \/ \E c \in CtxStates : ServeListNotes(c)
    \/ CallNormalizeSort

SpecHandler == InitHandler /\ [][NextHandler]_vars

\* the handler's call of ListNotes succeeded
Served == req # <<>> /\ pc \in {"more", "done"}

\* a size clamped to [10, 100]
ClampedTo10And100(n) == IF n < 10 THEN 10 ELSE IF n > 100 THEN 100 ELSE n

\* C12: the page size of the LIMIT and of the full-page test is the
\* requested size clamped to [10, 100], and clamping in the conversion and
\* again in ListNotes gives what clamping once gives.
C12_PageSizeClamped ==
    Served =>
        /\ filter.PageSize = ClampedTo10And100(req.PageSize)
        /\ ClampPageSize(req.PageSize) = ClampedTo10And100(req.PageSize)
        /\ ClampPageSize(filter.PageSize) = filter.PageSize
        /\ Len(resp.notes) = IF Cardinality(Matching) < ClampedTo10And100(req.PageSize)
                             THEN Cardinality(Matching)
                             ELSE ClampedTo10And100(req.PageSize)
        /\ resp.next # <<>> <=> Len(resp.notes) = ClampedTo10And100(req.PageSize)

\* C12 witness: a request of size 0 was served with a full page of 10
\* notes out of more than 10
C12_Witness ==
    /\ Served
    /\ req.PageSize = 0
    /\ filter.PageSize = 10
    /\ Cardinality(Matching) > 10
    /\ Len(resp.notes) = 10
    /\ resp.next # <<>>

\* the four columns a list request may be sorted by
FourColumns == {S_updated_at, S_created_at, S_title, S_is_pinned}

\* the sort column the request asks for, "" when it asks for none
RequestedColumn == IF req.SortBy # Nil THEN req.SortBy[1] ELSE <<>>

\* out is what normalising the column asked gives, as C13 has it
NormalisedAsClaimed(asked, out) ==
    /\ out \in FourColumns
    /\ asked \in FourColumns => out = asked
    /\ (asked = <<>> \/ ToLower(asked) \notin FourColumns) => out = S_updated_at

\* C13: the normalised sort column, of NormalizeSort and of ListNotes, is
\* updated_at for a blank column and for one outside {updated_at,
\* created_at, title, is_pinned}, the column itself for each of the four,
\* and so always one of the four.
C13_SortColumnNormalised ==
    /\ normalized # <<>> => NormalisedAsClaimed(RequestedColumn, normalized)
    /\ Served => NormalisedAsClaimed(RequestedColumn, SortColumn(filter))

\* C14: a request whose sort direction is left unset is listed in
\* descending order and its token carries the direction DESC.
C14_DirectionDefaultsToDescending ==
    (Served /\ req.SortDesc = Nil) =>
        /\ SortDir(filter) = S_DESC
        /\ \A i, j \in 1..Len(PageIds) :
               i < j => Before(RowOf(PageIds[i]), RowOf(PageIds[j]), RunCol, S_DESC)
        /\ resp.next # <<>> => DecodePaginationToken(resp.next).p.Direction = S_DESC

(***************************************************************************)
(* The two paging scenarios: pagination runs over a store of 15 notes of   *)
(* distinct updated_at and over stores whose notes share one updated_at    *)
(***************************************************************************)
\* 15 notes, no two of the same updated_at
DistinctStore == {NoteRow(i, 16, 1) : i \in 1..15}

\* n notes of one updated_at
TieStore(n) == {NoteRow(i, 1, 1) : i \in 1..n}

ScenarioStores == {DistinctStore, TieStore(2), TieStore(11)}

ScenarioRequests ==
    {[ProjectID |-> Nil, UserID |-> Nil, Query |-> Nil, SortBy |-> sb, SortDesc |-> sd,
      PageSize |-> ps, PageToken |-> <<>>] :
        sb \in {S_updated_at, S_created_at, S_title}, sd \in BOOLEAN, ps \in {1, 5}}

InitScenario ==
    /\ notes \in ScenarioStores
    /\ actors = ActorRows
    /\ filter \in ScenarioRequests
    /\ resp = NoResp
    /\ seen = <<>>
    /\ calls = 0
    /\ pc = "start"
    /\ cursor = ZeroCursor
    /\ token = <<>>
    /\ decoded = NoDecode
    /\ RestIdle

SpecScenario == InitScenario /\ [][Next]_vars

\* no id occurs twice in the sequence ids
NoRepeats(ids) == \A i, j \in 1..Len(ids) : i # j => ids[i] # ids[j]

\* the run of the first scenario: the 15 notes, descending by updated_at,
\* requested page size 5
Scenario15 ==
    /\ notes = DistinctStore
    /\ filter.SortBy = S_updated_at
    /\ filter.SortDesc
    /\ filter.PageSize = 5

\* C15 as stated: each of the first three calls returns 5 rows, no row
\* twice, and the third call returns no token or a fourth call no row.
C15_ThreePagesOfFive ==
    (Scenario15 /\ Returned) =>
        /\ calls <= 3 => Len(resp.notes) = 5 /\ Len(seen) = 5 * calls
        /\ NoRepeats(seen)
        /\ calls = 4 => Len(resp.notes) = 0

\* C15: the requested page size 5 is clamped to 10, so the 15 rows come in
\* two calls of 10 and 5 rows, in descending order of updated_at, no row
\* twice, and the second call returns no token.
C15_TenThenFive ==
    (Scenario15 /\ Returned) =>
        /\ calls = 1 => Len(resp.notes) = 10 /\ pc = "more"
        /\ calls = 2 => Len(resp.notes) = 5 /\ pc = "done" /\ Len(seen) = 15
        /\ calls <= 2
        /\ NoRepeats(seen)
        /\ \A i, j \in 1..Len(seen) :
               i < j => RowOf(seen[i]).updated_at > RowOf(seen[j]).updated_at

\* C15 witness: the second call has returned the last 5 of the 15 rows
C15_Witness ==
    /\ Scenario15
    /\ calls = 2
    /\ pc = "done"
    /\ Len(resp.notes) = 5
    /\ Len(seen) = 15

\* the run of the second scenario: n notes of one updated_at, ordered by
\* updated_at, requested page size 1
ScenarioTie(n) ==
    /\ notes = TieStore(n)
    /\ filter.SortBy = S_updated_at
    /\ filter.PageSize = 1

\* the ids come in the order of the tie-break of the run's direction
InIdOrder(ids) ==
    \A i, j \in 1..Len(ids) :
        i < j => IF filter.SortDesc THEN LexLess(ids[j], ids[i]) ELSE LexLess(ids[i], ids[j])

\* C16 as stated: the two rows come in two calls, one row per call, each
\* once, ordered by id.
C16_OneRowPerCall ==
    (ScenarioTie(2) /\ Returned) =>
        /\ Len(resp.notes) = 1
        /\ Len(seen) = calls
        /\ NoRepeats(seen)
        /\ InIdOrder(seen)
        /\ pc = "done" <=> calls = 2

\* C16: the requested page size 1 is clamped to 10, so the two rows of one
\* updated_at come in one call, each once, ordered by id; 11 rows of one
\* updated_at come in two calls of 10 and 1 rows, each once, ordered by id.
C16_TiesOrderedById ==
    /\ (ScenarioTie(2) /\ Returned) =>
           /\ calls = 1 /\ pc = "done"
           /\ Len(resp.notes) = 2
           /\ NoRepeats(seen) /\ InIdOrder(seen)
    /\ (ScenarioTie(11) /\ Returned) =>
           /\ calls = 1 => Len(resp.notes) = 10 /\ pc = "more"
           /\ calls = 2 => Len(resp.notes) = 1 /\ pc = "done" /\ Len(seen) = 11
           /\ calls <= 2
           /\ NoRepeats(seen) /\ InIdOrder(seen)

\* C16 witness: one call has returned both rows of one updated_at, in
\* descending order of the id
C16_Witness ==
    /\ ScenarioTie(2)
    /\ filter.SortDesc
    /\ calls = 1
    /\ pc = "done"
    /\ PageIds = <<NoteId(2), NoteId(1)>>

(***************************************************************************)
(* The tables and the statements of the Database's writers.  A statement   *)
(* works on the four tables as one record d and gives whether it           *)
(* succeeded and the tables after it.                                      *)
(***************************************************************************)
Tables(ns, as, ts, ats) == [notes |-> ns, actors |-> as, tags |-> ts, attachments |-> ats]

\* NOW() of the transaction begun at the clock value t, later than every
\* time of the stores the runs begin with
TimeAt(t) == TimeOf(MaxVals + 1 + t)

Done(d) == [ok |-> TRUE, d |-> d, norows |-> FALSE]

Failed(d) == [ok |-> FALSE, d |-> d, norows |-> FALSE]

\* a statement that succeeds with no row where the caller reads one:
\* sql.ErrNoRows
NoRows(d) == [ok |-> FALSE, d |-> d, norows |-> TRUE]

NoteExists(d, id) == \E r \in d.notes : r.id = id

\* INSERT INTO actors ... ON CONFLICT (id) DO UPDATE SET display_name,
\* avatar_url
UpsertActorStmt(d, a) ==
    Done([d EXCEPT !.actors =
              [id \in DOMAIN d.actors \cup {a.ID} |->
                  IF id = a.ID
                  THEN [display_name |-> a.DisplayName, avatar_url |-> a.AvatarURL]
                  ELSE d.actors[id]]])

\* the row of INSERT INTO notes (id, project_id, author_id, title, content,
\* is_pinned) VALUES (..., false), the two times by their default NOW()
InsertedRow(in, t) ==
    [id |-> in.ID, project_id |-> in.ProjectID, author_id |-> in.Author.ID,
     title |-> in.Title, content |-> in.Content, is_pinned |-> FALSE,
     created_at |-> TimeAt(t), updated_at |-> TimeAt(t)]

\* INSERT INTO notes ... RETURNING ...: fails on the primary key id and on
\* the foreign key author_id
InsertNoteStmt(d, in, t) ==
    IF NoteExists(d, in.ID) \/ in.Author.ID \notin DOMAIN d.actors THEN Failed(d)
    ELSE Done([d EXCEPT !.notes = @ \cup {InsertedRow(in, t)}])

TagRows(id, ts) == {<<id, ts[i]>> : i \in 1..Len(ts)}

\* INSERT INTO note_tags (note_id, tag) VALUES ... ON CONFLICT DO NOTHING:
\* fails on the foreign key note_id
InsertTagsStmt(d, id, ts) ==
    IF ~NoteExists(d, id) THEN Failed(d)
    ELSE Done([d EXCEPT !.tags = @ \cup TagRows(id, ts)])

\* INSERT INTO note_tags (note_id, tag) VALUES ... with no ON CONFLICT:
\* fails also on the primary key (note_id, tag)
InsertTagsStrictStmt(d, id, ts) ==
    IF \/ ~NoteExists(d, id)
       \/ TagRows(id, ts) \cap d.tags # {}
       \/ Cardinality(TagRows(id, ts)) # Len(ts)
    THEN Failed(d)
    ELSE Done([d EXCEPT !.tags = @ \cup TagRows(id, ts)])

\* INSERT INTO attachments ... ON CONFLICT (id) DO UPDATE SET ...: fails on
\* the foreign key note_id; the columns besides id and note_id go as url
UpsertAttachmentStmt(d, a) ==
    IF ~NoteExists(d, a.NoteID) THEN Failed(d)
    ELSE Done([d EXCEPT !.attachments =
                   {x \in @ : x.id # a.ID}
                       \cup {[id |-> a.ID, note_id |-> a.NoteID, url |-> a.URL]}])

\* DELETE FROM <child table> WHERE note_id = id; no row of note_revisions
\* is ever written
DeleteChildrenStmt(d, table, id) ==
    IF table = "note_tags" THEN Done([d EXCEPT !.tags = {x \in @ : x[1] # id}])
    ELSE IF table = "attachments"
    THEN Done([d EXCEPT !.attachments = {x \in @ : x.note_id # id}])
    ELSE Done(d)

\* DELETE FROM notes WHERE id = id, with the ON DELETE CASCADE of the child
\* tables
DeleteNoteStmt(d, id) ==
    Done([d EXCEPT !.notes = {r \in @ : r.id # id},
                   !.tags = {x \in @ : x[1] # id},
                   !.attachments = {x \in @ : x.note_id # id}])

\* UPDATE notes SET <the fields given> WHERE id = NoteID [AND updated_at =
\* IfMatchUpdatedAt] RETURNING id, with the trigger that sets updated_at to
\* NOW(); no row is sql.ErrNoRows
UpdatedRow(r, in, t) ==
    [r EXCEPT !.title = IF in.Title # Nil THEN in.Title[1] ELSE @,
              !.content = IF in.Content # Nil THEN in.Content ELSE @,
              !.is_pinned = IF in.IsPinned # Nil THEN in.IsPinned[1] ELSE @,
              !.updated_at = TimeAt(t)]

UpdateHits(r, in) ==
    /\ r.id = in.NoteID
    /\ in.IfMatchUpdatedAt # Nil => r.updated_at = in.IfMatchUpdatedAt[1]

UpdateNoteStmt(d, in, t) ==
    IF ~\E r \in d.notes : UpdateHits(r, in) THEN NoRows(d)
    ELSE Done([d EXCEPT !.notes =
                   {IF UpdateHits(r, in) THEN UpdatedRow(r, in, t) ELSE r : r \in @}])

(***************************************************************************)
(* The calls of Database.CreateNote, UpdateNote, DeleteNote and ViewNote,  *)
(* step by step.  A caller's record holds the operation, its input, the    *)
(* place it stands at, the time t its transaction began, the number n of   *)
(* statements it went through, and what it returned.                       *)
(***************************************************************************)
NoRet == [done |-> FALSE, err |-> "", ok |-> FALSE, note |-> Nil]

Idle ==
    [op |-> "idle", pc |-> "idle", in |-> Nil, t |-> 0, n |-> 0, failed |-> FALSE,
     found |-> FALSE, log |-> <<>>, ret |-> NoRet, snap |-> Tables({}, <<>>, {}, {})]

\* a statement of a transaction: its kind and, for an attachment, its index
Stmt(k, i) == [k |-> k, i |-> i]

\* the statements of CreateNote with the commit taken before the attachments
CreateNoteStmtsNoAttachments(in) ==
    <<Stmt("upsert_actor", 0), Stmt("insert_note", 0)>>
        \o (IF Len(in.Tags) > 0 THEN <<Stmt("insert_tags", 0)>> ELSE <<>>)

\* the statements of CreateNote in the order it executes them
CreateNoteStmts(in) ==
    <<Stmt("upsert_actor", 0), Stmt("insert_note", 0)>>
        \o (IF Len(in.Tags) > 0 THEN <<Stmt("insert_tags", 0)>> ELSE <<>>)
        \o [j \in 1..Len(in.Attachment) |-> Stmt("upsert_attachment", j)]

\* the statements of UpdateNote; squirrel gives no UPDATE without a SET
UpdateNoteStmts(in) ==
    (IF in.Title # Nil \/ in.Content # Nil \/ in.IsPinned # Nil
     THEN <<Stmt("update_note", 0)>> ELSE <<>>)
        \o (IF in.Tags # Nil THEN <<Stmt("delete_tags", 0)>> ELSE <<>>)
        \o (IF in.Tags # Nil /\ Len(in.Tags[1]) > 0
            THEN <<Stmt("insert_tags_strict", 0)>> ELSE <<>>)
        \o [j \in 1..Len(in.Attachments) |-> Stmt("upsert_attachment_unchecked", j)]

\* the statements of DeleteNote with the notes row deleted first
DeleteNoteStmtsNoteFirst ==
    <<Stmt("delete_note", 0), Stmt("delete_note_tags", 0), Stmt("delete_attachments", 0),
      Stmt("delete_note_revisions", 0)>>

\* the statements of DeleteNote in the order it executes them
DeleteNoteStmts ==
    <<Stmt("delete_note_tags", 0), Stmt("delete_attachments", 0),
      Stmt("delete_note_revisions", 0), Stmt("delete_note", 0)>>

StmtsOf(pr) ==
    IF pr.op = "CreateNote" THEN CreateNoteStmts(pr.in[1])
    ELSE IF pr.op = "UpdateNote" THEN UpdateNoteStmts(pr.in[1])
    ELSE IF pr.op = "DeleteNote" THEN DeleteNoteStmts
    ELSE <<>>

\* the statement st of the caller pr executed on the tables d
Exec(d, st, pr) ==
    IF st.k = "upsert_actor" THEN UpsertActorStmt(d, pr.in[1].Author)
    ELSE IF st.k = "insert_note" THEN InsertNoteStmt(d, pr.in[1], pr.t)
    ELSE IF st.k = "insert_tags" THEN InsertTagsStmt(d, pr.in[1].ID, pr.in[1].Tags)
    ELSE IF st.k = "upsert_attachment"
    THEN UpsertAttachmentStmt(d, pr.in[1].Attachment[st.i])
    ELSE IF st.k = "update_note" THEN UpdateNoteStmt(d, pr.in[1], pr.t)
    ELSE IF st.k = "delete_tags" THEN DeleteChildrenStmt(d, "note_tags", pr.in[1].NoteID)
    ELSE IF st.k = "insert_tags_strict"
    THEN InsertTagsStrictStmt(d, pr.in[1].NoteID, pr.in[1].Tags[1])
    ELSE IF st.k = "upsert_attachment_unchecked"
    THEN UpsertAttachmentStmt(d, pr.in[1].Attachments[st.i])
    ELSE IF st.k = "delete_note_tags" THEN DeleteChildrenStmt(d, "note_tags", pr.in[1])
    ELSE IF st.k = "delete_attachments"
    THEN DeleteChildrenStmt(d, "attachments", pr.in[1])
    ELSE IF st.k = "delete_note_revisions"
    THEN DeleteChildrenStmt(d, "note_revisions", pr.in[1])
    ELSE DeleteNoteStmt(d, pr.in[1])

\* the tables d after the first n statements of the caller pr
RECURSIVE ApplyFirst(_, _, _)
ApplyFirst(d, pr, n) ==
    IF n = 0 THEN d
    ELSE Exec(ApplyFirst(d, pr, n - 1), StmtsOf(pr)[n], pr).d

Committed == Tables(notes, actors, tags, attachments)

\* the tables of a transaction that keeps its writes after a failure
TxViewAfterFailure(pr) == ApplyFirst(Committed, pr, pr.n)

\* the tables as the transaction of the caller pr sees them: what is
\* committed and what it wrote itself
TxView(pr) == IF pr.failed THEN Committed ELSE ApplyFirst(Committed, pr, pr.n)

\* the rows a statement writes, by table and key
KeysOf(st, pr) ==
    IF st.k = "upsert_actor" THEN {<<"actors", pr.in[1].Author.ID>>}
    ELSE IF st.k = "insert_note" THEN {<<"notes", pr.in[1].ID>>}
    ELSE IF st.k = "insert_tags"
    THEN {<<"note_tags", x>> : x \in TagRows(pr.in[1].ID, pr.in[1].Tags)}
    ELSE IF st.k = "upsert_attachment"
    THEN {<<"attachments", pr.in[1].Attachment[st.i].ID>>}
    ELSE {}

InTx(pr) == pr.pc \in {"stmt", "commit"}

WrittenKeys(pr) ==
    IF InTx(pr) /\ ~pr.failed
    THEN UNION {KeysOf(StmtsOf(pr)[j], pr) : j \in 1..pr.n}
    ELSE {}

\* the statement waits while another transaction holds a row it writes
RowsFree(p, st) ==
    \A q \in DOMAIN procs \ {p} : KeysOf(st, procs[p]) \cap WrittenKeys(procs[q]) = {}

\* the bound on the clock: the number of transactions begun
MaxWrites == 2

\* the caller has called a writer that has not begun its transaction
Pending(pr) == pr.op \in {"CreateNote", "UpdateNote", "DeleteNote"} /\ pr.pc \in {"lock", "rlock", "begin"}

\* the callers of the Database
Callers == {1, 2}

\* a caller panicked, which ends the program
Crashed == \E q \in DOMAIN procs : procs[q].pc = "panicked"

\* the caller p is there and stands at a place of the set at
At(p, at) == p \in DOMAIN procs /\ procs[p].pc \in at /\ ~Crashed

CanStart(p) ==
    /\ At(p, {"idle", "returned"})
    /\ now + Cardinality({q \in DOMAIN procs : Pending(procs[q])}) < MaxWrites

Called(op, at, in) == [Idle EXCEPT !.op = op, !.pc = at, !.in = Some(in)]

RunUnchanged == UNCHANGED <<filter, resp, seen, calls, pc, cursor, token, decoded, req, normalized>>

TablesUnchanged == UNCHANGED <<notes, actors, tags, attachments, stable>>

\* Database.CreateNote is called: d.Mu.RLock()
StartCreateNote(p, in) ==
    /\ CanStart(p)
    /\ procs' = [procs EXCEPT ![p] = Called("CreateNote", "rlock", in)]
    /\ RunUnchanged /\ TablesUnchanged /\ UNCHANGED <<mu, now>>

\* Database.UpdateNote is called: d.Mu.Lock()
StartUpdateNote(p, in) ==
    /\ CanStart(p)
    /\ procs' = [procs EXCEPT ![p] = Called("UpdateNote", "lock", in)]
    /\ RunUnchanged /\ TablesUnchanged /\ UNCHANGED <<mu, now>>

\* Database.DeleteNote is called: d.Mu.Lock()
StartDeleteNote(p, id) ==
    /\ CanStart(p)
    /\ procs' = [procs EXCEPT ![p] = Called("DeleteNote", "lock", id)]
    /\ RunUnchanged /\ TablesUnchanged /\ UNCHANGED <<mu, now>>

\* Database.UpsertActor is called: d.Mu.Lock()
StartUpsertActor(p, a) ==
    /\ At(p, {"idle", "returned"})
    /\ procs' = [procs EXCEPT ![p] = Called("UpsertActor", "lock", a)]
    /\ RunUnchanged /\ TablesUnchanged /\ UNCHANGED <<mu, now>>

\* Database.ViewNote is called: d.Mu.RLock()
StartViewNote(p, id) ==
    /\ At(p, {"idle", "returned"})
    /\ procs' = [procs EXCEPT ![p] = Called("ViewNote", "rlock", id)]
    /\ RunUnchanged /\ TablesUnchanged /\ UNCHANGED <<mu, now>>

\* Mu.Lock() returns: nobody holds the lock
AcquireLock(p) ==
    /\ At(p, {"lock"})
    /\ mu.writer = 0
    /\ mu.readers = {}
    /\ mu' = [mu EXCEPT !.writer = p]
    /\ procs' = [procs EXCEPT ![p].pc = IF procs[p].op = "UpsertActor" THEN "exec" ELSE "begin"]
    /\ RunUnchanged /\ TablesUnchanged /\ UNCHANGED now

\* the statement of UpsertActor, outside any transaction
ExecUpsertActor(p) ==
    /\ At(p, {"exec"})
    /\ actors' = UpsertActorStmt(Committed, procs[p].in[1]).d.actors
    /\ procs' = [procs EXCEPT ![p].log = <<"upsert_actor">>, ![p].pc = "unlock"]
    /\ RunUnchanged /\ UNCHANGED <<notes, tags, attachments, stable, mu, now>>

\* Mu.RLock() returns: no writer holds the lock and none waits for it; the
\* RLock of the ViewNote that UpdateNote calls is taken here as well
AcquireRLock(p) ==
    /\ At(p, {"rlock", "view_rlock"})
    /\ mu.writer = 0
    /\ \A q \in DOMAIN procs : procs[q].pc # "lock"
    /\ mu' = [mu EXCEPT !.readers = @ \cup {p}]
    /\ procs' = [procs EXCEPT ![p].pc = IF procs[p].op = "CreateNote" THEN "begin" ELSE "query"]
    /\ RunUnchanged /\ TablesUnchanged /\ UNCHANGED now

\* d.Db.BeginTxx
BeginTx(p) ==
    /\ At(p, {"begin"})
    /\ procs' = [procs EXCEPT ![p].t = now,
                              ![p].snap = Committed,
                              ![p].pc = IF StmtsOf(procs[p]) = <<>> THEN "commit" ELSE "stmt"]
    /\ now' = now + 1
    /\ RunUnchanged /\ TablesUnchanged /\ UNCHANGED mu

\* the caller after d.Db.BeginTxx returned an error: CreateNote returns
\* it; UpdateNote and DeleteNote have deferred tx.Rollback() before they
\* look at the error, and with tx nil the deferred call panics
AfterBeginError(pr) ==
    IF pr.op = "CreateNote"
    THEN [pr EXCEPT !.snap = Committed, !.ret = [NoRet EXCEPT !.err = "begin"], !.pc = "unlock"]
    ELSE [pr EXCEPT !.snap = Committed, !.ret = [NoRet EXCEPT !.err = "panic"],
                    !.pc = "panicked"]

\* d.Db.BeginTxx fails; the deferred Unlock runs also while panicking
BeginTxFails(p) ==
    /\ At(p, {"begin"})
    /\ procs' = [procs EXCEPT ![p] = AfterBeginError(procs[p])]
    /\ mu' = IF procs[p].op = "CreateNote" THEN mu
             ELSE [writer |-> 0, readers |-> mu.readers]
    /\ RunUnchanged /\ TablesUnchanged /\ UNCHANGED now

\* a caller that goes on after any statement, whatever it gave
AfterStmtUnchecked(pr, st, r, existed) ==
    [pr EXCEPT !.n = @ + 1,
               !.failed = ~r.ok,
               !.found = IF st.k = "delete_note" THEN existed ELSE @,
               !.log = Append(@, st.k),
               !.pc = IF pr.n + 1 = Len(StmtsOf(pr)) THEN "commit" ELSE "stmt"]

\* the caller after its statement st gave r; existed tells whether the
\* note of a DeleteNote was there
AfterStmt(pr, st, r, existed) ==
    IF r.ok \/ st.k = "upsert_attachment_unchecked" \/ (st.k = "update_note" /\ ~r.norows)
    THEN [pr EXCEPT !.n = @ + 1,
                    !.failed = ~r.ok,
                    !.found = IF st.k = "delete_note" THEN existed ELSE @,
                    !.log = Append(@, st.k),
                    !.pc = IF pr.n + 1 = Len(StmtsOf(pr)) THEN "commit" ELSE "stmt"]
    ELSE [pr EXCEPT !.failed = TRUE,
                    !.log = Append(@, "rollback"),
                    !.ret = [NoRet EXCEPT !.err = st.k],
                    !.pc = "unlock"]

StmtResult(pr, st, d) == IF pr.failed THEN Failed(d) ELSE Exec(d, st, pr)

ExecOn(pr, st, d) ==
    AfterStmt(pr, st, StmtResult(pr, st, d),
              pr.op = "DeleteNote" /\ NoteExists(d, pr.in[1]))

\* the next statement of the transaction
ExecStmt(p) ==
    /\ At(p, {"stmt"})
    /\ RowsFree(p, StmtsOf(procs[p])[procs[p].n + 1])
    /\ procs' = [procs EXCEPT ![p] =
                     ExecOn(procs[p], StmtsOf(procs[p])[procs[p].n + 1], TxView(procs[p]))]
    /\ RunUnchanged /\ TablesUnchanged /\ UNCHANGED <<mu, now>>

\* the next statement fails for a reason outside the tables (the server,
\* the connection, the context); the transaction is failed from then on
ExecStmtFails(p) ==
    /\ At(p, {"stmt"})
    /\ ~procs[p].failed
    /\ procs' = [procs EXCEPT ![p] =
                     AfterStmt(procs[p], StmtsOf(procs[p])[procs[p].n + 1],
                               Failed(Committed), FALSE)]
    /\ RunUnchanged /\ TablesUnchanged /\ UNCHANGED <<mu, now>>

\* the models.Note CreateNote returns: the row RETURNING gave, the author
\* and the tags of the input
CreatedNote(r, in) ==
    [ID |-> r.id, ProjectID |-> r.project_id, AuthorID |-> r.author_id,
     Title |-> r.title, Content |-> r.content, IsPinned |-> r.is_pinned,
     CreatedAt |-> r.created_at, UpdatedAt |-> r.updated_at,
     Author |-> in.Author, Tags |-> in.Tags]

\* the caller after tx.Commit() on the tables d of its transaction
AfterCommit(pr, d) ==
    IF pr.failed
    THEN [pr EXCEPT !.log = Append(@, "rollback"),
                    !.ret = [NoRet EXCEPT !.err = "commit"],
                    !.pc = "unlock"]
    ELSE IF pr.op = "CreateNote"
    THEN [pr EXCEPT !.log = Append(@, "commit"),
                    !.ret = [NoRet EXCEPT !.note =
                                Some(CreatedNote(CHOOSE r \in d.notes : r.id = pr.in[1].ID,
                                                 pr.in[1]))],
                    !.pc = "unlock"]
    ELSE IF pr.op = "DeleteNote"
    THEN [pr EXCEPT !.log = Append(@, "commit"),
                    !.ret = [NoRet EXCEPT !.ok = pr.found],
                    !.pc = "unlock"]
    ELSE [pr EXCEPT !.log = Append(@, "commit"), !.pc = "view_rlock"]

\* the tables become d; a note stays stable when its row did not change
CommitTables(d) ==
    /\ notes' = d.notes
    /\ actors' = d.actors
    /\ tags' = d.tags
    /\ attachments' = d.attachments
    /\ stable' = {id \in stable : \E r \in d.notes : r.id = id /\ r \in notes}

\* tx.Commit(): lib/pq rolls a failed transaction back and returns an error
Commit(p) ==
    /\ At(p, {"commit"})
    /\ CommitTables(TxView(procs[p]))
    /\ procs' = [procs EXCEPT ![p] = AfterCommit(procs[p], TxView(procs[p]))]
    /\ RunUnchanged /\ UNCHANGED <<mu, now>>

\* tx.Commit() fails and nothing is committed
CommitFails(p) ==
    /\ At(p, {"commit"})
    /\ ~procs[p].failed
    /\ procs' = [procs EXCEPT ![p].failed = TRUE,
                              ![p].log = Append(@, "rollback"),
                              ![p].ret = [NoRet EXCEPT !.err = "commit"],
                              ![p].pc = "unlock"]
    /\ RunUnchanged /\ TablesUnchanged /\ UNCHANGED <<mu, now>>

\* whether PostgreSQL accepts the statement of ViewNote: it joins the tags
\* "ON t. = n.id", a syntax error
ViewNoteStatementParses == FALSE

\* the note ViewNote returns for the row r it got: &rw.Note, a note
\* without the author that was set on the copy n only
ViewedNote(r, d) ==
    [ID |-> r.id, ProjectID |-> r.project_id, AuthorID |-> r.author_id,
     Title |-> r.title, Content |-> r.content, IsPinned |-> r.is_pinned,
     CreatedAt |-> r.created_at, UpdatedAt |-> r.updated_at,
     Author |-> Nil, Tags |-> {x[2] : x \in {y \in d.tags : y[1] = r.id}}]

\* what d.Db.GetContext and the lines after it give on the tables d
ViewNoteResult(d, id) ==
    IF ~ViewNoteStatementParses THEN [NoRet EXCEPT !.err = "query"]
    ELSE IF ~\E r \in d.notes : r.id = id /\ r.author_id \in DOMAIN d.actors
    THEN [NoRet EXCEPT !.err = "no rows"]
    ELSE [NoRet EXCEPT !.note = Some(ViewedNote(CHOOSE r \in d.notes : r.id = id, d))]

\* the id of the note a ViewNote is about, called by itself or by UpdateNote
ViewedId(pr) == IF pr.op = "UpdateNote" THEN pr.in[1].NoteID ELSE pr.in[1]

\* ViewNote's query and what it makes of the row; found keeps whether the
\* note was there
ViewQuery(p) ==
    /\ At(p, {"query"})
    /\ procs' = [procs EXCEPT ![p].ret = ViewNoteResult(Committed, ViewedId(procs[p])),
                              ![p].found = NoteExists(Committed, ViewedId(procs[p])),
                              ![p].pc = "unlock"]
    /\ RunUnchanged /\ TablesUnchanged /\ UNCHANGED <<mu, now>>

\* the deferred Unlock or RUnlock, and the return
Return(p) ==
    /\ At(p, {"unlock"})
    /\ mu' = [writer |-> IF mu.writer = p THEN 0 ELSE mu.writer, readers |-> mu.readers \ {p}]
    /\ procs' = [procs EXCEPT ![p].ret.done = TRUE, ![p].pc = "returned"]
    /\ RunUnchanged /\ TablesUnchanged /\ UNCHANGED now

(***************************************************************************)
(* The inputs of the writers                                               *)
(***************************************************************************)
S_u3 == <<117, 51>>
S_a1 == <<97, 49>>
S_a2 == <<97, 50>>
S_url == <<104, 116, 116, 112, 115, 58, 47, 47, 120>>

Attachment(id, noteID) == [ID |-> id, NoteID |-> noteID, URL |-> S_url]

\* a CreateNoteInput of the author a, with an attachment of the note at
CreateInput(i, title, ts, a, at) ==
    [ID |-> NoteId(i), ProjectID |-> Some(S_p1), Title |-> title, Content |-> Some(S_alpha),
     Tags |-> ts,
     Author |-> [ID |-> a, DisplayName |-> Some(S_beta), AvatarURL |-> Nil],
     Attachment |-> IF at = 0 THEN <<>> ELSE <<Attachment(S_a1, NoteId(at))>>]

\* new notes with tags and an attachment and without, a note whose id is
\* taken, and a note whose attachment is of a note that does not exist
CreateNoteInputs ==
    {CreateInput(20, TitleOf(2), <<S_beta, S_alpha>>, S_u1, 20),
     CreateInput(0, TitleOf(3), <<>>, S_u3, 0),
     CreateInput(1, TitleOf(1), <<S_alpha>>, S_u3, 0),
     CreateInput(21, TitleOf(1), <<S_alpha, S_alpha>>, S_u2, 99)}

DeleteNoteInputs == {NoteId(1), NoteId(20), NoteId(99)}

UpdateInput(i, title, pinned, ts, at) ==
    [NoteID |-> NoteId(i), Title |-> title, Content |-> Nil, Tags |-> ts, IsPinned |-> pinned,
     IfMatchUpdatedAt |-> Nil,
     Attachments |-> IF at = 0 THEN <<>> ELSE <<Attachment(S_a2, NoteId(at))>>]

\* updates of the title (the empty one among them), of the pin and of the
\* tags, of a note that exists and of one that does not
UpdateNoteInputs ==
    {UpdateInput(2, Some(<<>>), Nil, Nil, 0),
     UpdateInput(2, Some(TitleOf(4)), Some(TRUE), Some(<<S_beta>>), 2),
     UpdateInput(3, Nil, Nil, Some(<<>>), 99),
     UpdateInput(99, Some(TitleOf(1)), Nil, Nil, 0)}

ViewNoteInputs == {NoteId(1), NoteId(99)}

\* updates that give IfMatchUpdatedAt: a time the note n03 never had, with
\* only the tags and with the title, and the time it has
UpdateIfMatchInputs ==
    {[UpdateInput(3, Nil, Nil, Some(<<S_beta>>), 3) EXCEPT !.IfMatchUpdatedAt = Some(0)],
     [UpdateInput(3, Some(TitleOf(4)), Nil, Some(<<S_beta>>), 0)
          EXCEPT !.IfMatchUpdatedAt = Some(0)],
     [UpdateInput(3, Some(TitleOf(4)), Nil, Nil, 0) EXCEPT !.IfMatchUpdatedAt = Some(TimeOf(0))]}

UpsertActorInputs ==
    {[ID |-> S_u3, DisplayName |-> Some(S_alpha), AvatarURL |-> Nil],
     [ID |-> S_u1, DisplayName |-> Nil, AvatarURL |-> Some(S_url)]}

(***************************************************************************)
(* A pagination run while one caller creates and deletes notes             *)
(***************************************************************************)
WriteRequests ==
    {r \in Requests :
        /\ r.ProjectID = Nil /\ r.UserID = Nil /\ r.Query = Nil
        /\ r.PageSize = 5
        /\ r.SortBy \in {S_updated_at, S_title, S_Title}}

InitWrites ==
    /\ notes \in ForgedStores
    /\ actors = ActorRows
    /\ filter \in WriteRequests
    /\ resp = NoResp
    /\ seen = <<>>
    /\ calls = 0
    /\ pc = "start"
    /\ cursor = ZeroCursor
    /\ token = <<>>
    /\ decoded = NoDecode
    /\ req = <<>>
    /\ normalized = <<>>
    /\ tags = {}
    /\ attachments = {}
    /\ mu = [writer |-> 0, readers |-> {}]
    /\ procs = [p \in {1} |-> Idle]
    /\ stable = {r.id : r \in notes}
    /\ now = 0

NextWrites ==
    \/ FirstPage("live")
    \/ NextPage("live")
    \/ \E p \in Callers, in \in CreateNoteInputs : StartCreateNote(p, in)
    \/ \E p \in Callers, id \in DeleteNoteInputs : StartDeleteNote(p, id)
    \/ \E p \in Callers : AcquireLock(p)
    \/ \E p \in Callers : AcquireRLock(p)
    \/ \E p \in Callers : BeginTx(p)
    \/ \E p \in Callers : ExecStmt(p)
    \/ \E p \in Callers : Commit(p)
    \/ \E p \in Callers : Return(p)

SpecWrites == InitWrites /\ [][NextWrites]_vars

\* the notes that were there, unchanged, through the whole run and that
\* the filter of the run selects
StableMatching == {r \in Matching : r.id \in stable}

\* C17: when notes are created or deleted between the calls of a
\* pagination run, no note that stays unchanged through the run is returned
\* twice, and a run that has ended has returned every such note.
C17_NoDriftUnderWrites ==
    Returned =>
        /\ \A i, j \in 1..Len(seen) : (i # j /\ seen[i] \in stable) => seen[i] # seen[j]
        /\ pc = "done" => \A r \in StableMatching : \E i \in 1..Len(seen) : seen[i] = r.id

(***************************************************************************)
(* Two callers of the Database                                             *)
(***************************************************************************)
InitDb ==
    /\ notes \in {{NoteRow(i, MaxVals, 1) : i \in 1..n} : n \in 2..3}
    /\ actors = ActorRows
    /\ filter = ZeroFilter
    /\ resp = NoResp
    /\ seen = <<>>
    /\ calls = 0
    /\ pc = "start"
    /\ cursor = ZeroCursor
    /\ token = <<>>
    /\ decoded = NoDecode
    /\ req = <<>>
    /\ normalized = <<>>
    /\ tags = {}
    /\ attachments = {}
    /\ mu = [writer |-> 0, readers |-> {}]
    /\ procs = [p \in Callers |-> Idle]
    /\ stable = {}
    /\ now = 0

NextDb ==
    \/ \E p \in Callers, in \in CreateNoteInputs : StartCreateNote(p, in)
    \/ \E p \in Callers, in \in UpdateNoteInputs : StartUpdateNote(p, in)
    \/ \E p \in Callers, id \in DeleteNoteInputs : StartDeleteNote(p, id)
    \/ \E p \in Callers, id \in ViewNoteInputs : StartViewNote(p, id)
    \/ \E p \in Callers : AcquireLock(p)
    \/ \E p \in Callers : AcquireRLock(p)
    \/ \E p \in Callers : BeginTx(p)
    \/ \E p \in Callers : ExecStmt(p)
    \/ \E p \in Callers : Commit(p)
    \/ \E p \in Callers : ViewQuery(p)
    \/ \E p \in Callers : Return(p)

SpecDb == InitDb /\ [][NextDb]_vars

\* C18: an UpdateNote that has committed goes on to read the note back and
\* returns: it is never left waiting for the database lock while it holds
\* that lock itself, which nothing but its own return releases.
C18_UpdateNoteReturns ==
    \A p \in DOMAIN procs :
        (procs[p].op = "UpdateNote" /\ procs[p].pc = "view_rlock") => mu.writer # p

\* C19: a ViewNote of a note that is there returns, with no error, a note
\* of that id with its title and content and with the author of the joined
\* actor row.
C19_ViewNoteReturnsAuthor ==
    \A p \in DOMAIN procs :
        (procs[p].op = "ViewNote" /\ procs[p].ret.done /\ procs[p].found) =>
            /\ procs[p].ret.err = ""
            /\ procs[p].ret.note # Nil
            /\ procs[p].ret.note[1].ID = procs[p].in[1]
            /\ procs[p].ret.note[1].Author # Nil

\* the statements C20 gives for the input in, in its order, and the commit
ClaimedLog(in) ==
    <<"upsert_actor", "insert_note">>
        \o (IF in.Tags = <<>> THEN <<>> ELSE <<"insert_tags">>)
        \o [j \in 1..Len(in.Attachment) |-> "upsert_attachment"]
        \o <<"commit">>

\* the caller pr went through a beginning of the claimed statements, and
\* then rolled back if it did not go through them all
LogAsClaimed(pr, want) ==
    /\ Len(pr.log) <= Len(want)
    /\ \A i \in 1..Len(pr.log) :
           \/ pr.log[i] = want[i]
           \/ i = Len(pr.log) /\ pr.log[i] = "rollback"

CommittedCreate(pr) ==
    pr.op = "CreateNote" /\ pr.log # <<>> /\ pr.log[Len(pr.log)] = "commit"

\* C20: CreateNote executes, in one transaction, the actor upsert, the note
\* insert with is_pinned false, the tag inserts and the attachment inserts
\* in this order, commits only after all of them succeeded, and returns a
\* note of the input's id.
C20_CreateNoteInOrder ==
    \A p \in DOMAIN procs :
        procs[p].op = "CreateNote" =>
            /\ LogAsClaimed(procs[p], ClaimedLog(procs[p].in[1]))
            /\ CommittedCreate(procs[p]) =>
                   /\ procs[p].log = ClaimedLog(procs[p].in[1])
                   /\ procs[p].ret.err = ""
                   /\ procs[p].ret.note # Nil
                   /\ procs[p].ret.note[1].ID = procs[p].in[1].ID
                   /\ ~procs[p].ret.note[1].IsPinned
                   /\ procs[p].pc = "unlock" =>
                          \E r \in notes : r.id = procs[p].in[1].ID /\ ~r.is_pinned
            /\ (procs[p].ret.done /\ ~CommittedCreate(procs[p])) =>
                   /\ procs[p].ret.err # ""
                   /\ procs[p].ret.note = Nil

\* C20 witness: a CreateNote with two tags and an attachment has returned
\* the note after its five steps
C20_Witness ==
    \E p \in DOMAIN procs :
        /\ procs[p].op = "CreateNote"
        /\ procs[p].pc = "returned"
        /\ procs[p].log = <<"upsert_actor", "insert_note", "insert_tags",
                            "upsert_attachment", "commit">>
        /\ procs[p].ret.err = ""
        /\ procs[p].ret.note[1].ID = NoteId(20)
        /\ \E r \in notes : r.id = NoteId(20) /\ ~r.is_pinned
        /\ \E x \in attachments : x.note_id = NoteId(20)

\* the four deletes C21 gives, in its order, and the commit
ClaimedDeleteLog ==
    <<"delete_note_tags", "delete_attachments", "delete_note_revisions", "delete_note",
      "commit">>

\* a row of one of the tables refers to the note id
RefersTo(id) ==
    \/ \E r \in notes : r.id = id
    \/ \E x \in tags : x[1] = id
    \/ \E x \in attachments : x.note_id = id

\* the caller pr deleted a note that was there and has committed
CommittedDelete(pr) ==
    /\ pr.op = "DeleteNote"
    /\ pr.found
    /\ pr.log # <<>>
    /\ pr.log[Len(pr.log)] = "commit"

\* C21: DeleteNote of a note that is there deletes, in one transaction, the
\* note's rows of note_tags, attachments and note_revisions and then the
\* notes row, in this order, commits and returns true with no error, and
\* when it returns no row of the tables refers to the note.
C21_DeleteNoteInOrder ==
    \A p \in DOMAIN procs :
        procs[p].op = "DeleteNote" =>
            /\ LogAsClaimed(procs[p], ClaimedDeleteLog)
            /\ CommittedDelete(procs[p]) =>
                   /\ procs[p].log = ClaimedDeleteLog
                   /\ procs[p].ret.err = ""
                   /\ procs[p].ret.ok
                   /\ procs[p].pc = "unlock" => ~RefersTo(procs[p].in[1])
            /\ (procs[p].ret.done /\ procs[p].found /\ procs[p].ret.err = "") =>
                   CommittedDelete(procs[p])

\* C21 witness: the note created with two tags and an attachment has been
\* deleted by the second transaction, which is about to return true
C21_Witness ==
    \E p \in DOMAIN procs :
        /\ CommittedDelete(procs[p])
        /\ procs[p].in[1] = NoteId(20)
        /\ procs[p].pc = "unlock"
        /\ procs[p].ret.ok
        /\ now = 2
        /\ ~RefersTo(NoteId(20))

(***************************************************************************)
(* A pagination run beside two callers of the Database                     *)
(***************************************************************************)
InitBusy ==
    /\ notes = {NoteRow(i, MaxVals, 1) : i \in 1..11}
    /\ actors = ActorRows
    /\ filter \in {r \in WriteRequests : r.SortBy = S_updated_at}
    /\ resp = NoResp
    /\ seen = <<>>
    /\ calls = 0
    /\ pc = "start"
    /\ cursor = ZeroCursor
    /\ token = <<>>
    /\ decoded = NoDecode
    /\ req = <<>>
    /\ normalized = <<>>
    /\ tags = {}
    /\ attachments = {}
    /\ mu = [writer |-> 0, readers |-> {}]
    /\ procs = [p \in Callers |-> Idle]
    /\ stable = {r.id : r \in notes}
    /\ now = 0

NextBusy ==
    \/ FirstPage("live")
    \/ NextPage("live")
    \/ \E p \in Callers, in \in CreateNoteInputs : StartCreateNote(p, in)
    \/ \E p \in Callers, id \in DeleteNoteInputs : StartDeleteNote(p, id)
    \/ \E p \in Callers : AcquireLock(p)
    \/ \E p \in Callers : AcquireRLock(p)
    \/ \E p \in Callers : BeginTx(p)
    \/ \E p \in Callers : ExecStmt(p)
    \/ \E p \in Callers : Commit(p)
    \/ \E p \in Callers : Return(p)

SpecBusy == InitBusy /\ [][NextBusy]_vars

InitFaults ==
    /\ notes \in {{NoteRow(i, MaxVals, 1) : i \in 1..n} : n \in 2..3}
    /\ actors = ActorRows
    /\ filter = ZeroFilter
    /\ resp = NoResp
    /\ seen = <<>>
    /\ calls = 0
    /\ pc = "start"
    /\ cursor = ZeroCursor
    /\ token = <<>>
    /\ decoded = NoDecode
    /\ req = <<>>
    /\ normalized = <<>>
    /\ tags = {}
    /\ attachments = {}
    /\ mu = [writer |-> 0, readers |-> {}]
    /\ procs = [p \in {1} |-> Idle]
    /\ stable = {}
    /\ now = 0

NextFaults ==
    \/ \E p \in Callers, a \in UpsertActorInputs : StartUpsertActor(p, a)
    \/ \E p \in Callers, in \in CreateNoteInputs : StartCreateNote(p, in)
    \/ \E p \in Callers, in \in UpdateNoteInputs \cup UpdateIfMatchInputs : StartUpdateNote(p, in)
    \/ \E p \in Callers, id \in DeleteNoteInputs : StartDeleteNote(p, id)
    \/ \E p \in Callers, id \in ViewNoteInputs : StartViewNote(p, id)
    \/ \E p \in Callers : AcquireLock(p)
    \/ \E p \in Callers : AcquireRLock(p)
    \/ \E p \in Callers : ExecUpsertActor(p)
    \/ \E p \in Callers : BeginTx(p)
    \/ \E p \in Callers : BeginTxFails(p)
    \/ \E p \in Callers : ExecStmt(p)
    \/ \E p \in Callers : ExecStmtFails(p)
    \/ \E p \in Callers : Commit(p)
    \/ \E p \in Callers : CommitFails(p)
    \/ \E p \in Callers : ViewQuery(p)
    \/ \E p \in Callers : Return(p)

SpecFaults == InitFaults /\ [][NextFaults]_vars

(***************************************************************************)
(* The locked sections                                                     *)
(***************************************************************************)
\* the caller p holds d.Mu, for writing or for reading
Inside(p) == mu.writer = p \/ p \in mu.readers

\* the operations that change the store
Mutating(pr) == pr.op \in {"UpsertActor", "CreateNote", "UpdateNote", "DeleteNote"}

\* C23: no two store-mutating operations are inside their locked sections
\* at once, and no mutating operation is inside while a ViewNote is: two
\* callers inside at once are two ViewNotes
C23_WritersSerialised ==
    \A p, q \in DOMAIN procs :
        (p # q /\ Inside(p) /\ Inside(q)) =>
            (~Mutating(procs[p]) /\ ~Mutating(procs[q]))

(***************************************************************************)
(* Failures of the server                                                  *)
(***************************************************************************)
\* BeginTxx of the UpdateNote or DeleteNote of the caller pr failed
BeginFailed(pr) ==
    /\ pr.op \in {"UpdateNote", "DeleteNote"}
    /\ pr.ret.err \in {"begin", "panic"}

\* C25: when beginning the transaction fails, UpdateNote and DeleteNote
\* return an error without panicking, release the lock and change nothing.
C25_BeginFailureReturnsError ==
    \A p \in DOMAIN procs :
        BeginFailed(procs[p]) =>
            /\ procs[p].pc # "panicked"
            /\ procs[p].ret.err = "begin"
            /\ procs[p].pc = "returned" => ~Inside(p)
            /\ Committed = procs[p].snap

\* the row, the tags and the attachments of the note id in the tables d
NoteState(d, id) ==
    [row |-> {r \in d.notes : r.id = id},
     tags |-> {x \in d.tags : x[1] = id},
     attachments |-> {x \in d.attachments : x.note_id = id}]

\* the UpdateNote of the caller pr gave an IfMatchUpdatedAt that was not the
\* updated_at of its note when its transaction began
StaleUpdate(pr) ==
    /\ pr.op = "UpdateNote"
    /\ pr.in[1].IfMatchUpdatedAt # Nil
    /\ \E r \in pr.snap.notes :
           r.id = pr.in[1].NoteID /\ r.updated_at # pr.in[1].IfMatchUpdatedAt[1]

\* C26: an UpdateNote whose IfMatchUpdatedAt differs from the stored
\* updated_at returns an error and leaves the note's columns, tags and
\* attachments as they were, whatever fields it carries.
C26_StaleUpdateChangesNothing ==
    \A p \in DOMAIN procs :
        StaleUpdate(procs[p]) =>
            /\ procs[p].ret.done => procs[p].ret.err # ""
            /\ NoteState(Committed, procs[p].in[1].NoteID)
                   = NoteState(procs[p].snap, procs[p].in[1].NoteID)

\* a statement of the UpdateNote of the caller pr, or its commit, failed
UpdateFailed(pr) == pr.op = "UpdateNote" /\ pr.failed

\* C27: when a statement of UpdateNote fails (the update of the notes row,
\* the delete or the insert of the tags, an upsert of an attachment), the
\* call returns an error and nothing it wrote is committed.
C27_UpdateNoteAllOrNothing ==
    \A p \in DOMAIN procs :
        UpdateFailed(procs[p]) =>
            /\ Committed = procs[p].snap
            /\ procs[p].pc \in {"stmt", "commit", "unlock", "returned"}
            /\ procs[p].pc \in {"unlock", "returned"} =>
                   (procs[p].ret.err # "" /\ procs[p].ret.note = Nil)

\* C27 witness: an UpdateNote that had written the title, the pin and the
\* tags in its transaction returned an error after the upsert of its
\* attachment failed, and the tables are as they were
C27_Witness ==
    \E p \in DOMAIN procs :
        /\ UpdateFailed(procs[p])
        /\ procs[p].in[1] = UpdateInput(2, Some(TitleOf(4)), Some(TRUE), Some(<<S_beta>>), 2)
        /\ procs[p].log = <<"update_note", "delete_tags", "insert_tags_strict",
                            "upsert_attachment_unchecked", "rollback">>
        /\ procs[p].ret.done /\ procs[p].ret.err = "commit"
        /\ Committed = procs[p].snap

\* a statement of the CreateNote of the caller pr, or its commit, failed
CreateFailed(pr) == pr.op = "CreateNote" /\ pr.failed

\* C28: when the actor upsert, the note insert, the tag insert, an
\* attachment insert or the commit of CreateNote fails, the call returns an
\* error and no row it wrote is in the tables.
C28_CreateNoteAllOrNothing ==
    \A p \in DOMAIN procs :
        CreateFailed(procs[p]) =>
            /\ Committed = procs[p].snap
            /\ ~NoteExists(procs[p].snap, procs[p].in[1].ID) =>
                   ~RefersTo(procs[p].in[1].ID)
            /\ procs[p].pc \in {"unlock", "returned"}
            /\ procs[p].ret.err # "" /\ procs[p].ret.note = Nil

\* C28 witness: a CreateNote whose attachment is of a note that does not
\* exist returned an error after it upserted the actor and inserted the
\* note and the tags, and neither the note nor the actor's new name is
\* in the tables
C28_Witness ==
    \E p \in DOMAIN procs :
        /\ CreateFailed(procs[p])
        /\ procs[p].in[1].ID = NoteId(21)
        /\ procs[p].log = <<"upsert_actor", "insert_note", "insert_tags", "rollback">>
        /\ procs[p].ret.done /\ procs[p].ret.err = "upsert_attachment"
        /\ ~RefersTo(NoteId(21))
        /\ actors[S_u2].display_name = Nil

=============================================================================
